---- MODULE Spec2Model ----
(***************************************************************************)
(* Health-Hero backend: the debate state machine (agents/debate.py), the   *)
(* dual extraction selector (ocr/pipeline.py), the response normalizers    *)
(* (agents/extraction_agent.py, agents/analysis_agent.py) and the stage    *)
(* pipeline with its aggregate (agents/pipeline.py).                       *)
(*                                                                         *)
(* Python values are records [t, n, s]: t is the Python type, n the number *)
(* (floats in thousandths, bools as 0/1, containers as their length) and s *)
(* the text, a sequence of one-character strings.                          *)
(***************************************************************************)
EXTENDS Integers, Sequences, FiniteSets, TLC

VARIABLES
    \* DebateManager.run_debate
    d_pc, d_round, max_rounds, num_rounds_arg, num_rounds, bill_json,
    transcript, previous_message, calls, d_result,
    \* OCRPipeline.extract
    o_pc, document, min_text_threshold, return_pages, o_pages, o_method,
    text_error, text_calls, ocr_calls, o_result,
    \* one stage's normalizer (extraction_agent, analysis_agent)
    n_pc, n_stage, n_reply, n_result, n_again,
    \* process_medical_bill
    p_pc, line_items, analysis_items, negotiation_materials, p_calls, p_result,
    \* a full run: process_bill (api.py) or run_pipeline (run_pipeline_cli.py)
    r_pc, entry, cli_max_rounds, cli_run_debate, ocr_text, debate_summary,
    service_log, r_result,
    \* the credential: OPENAI_API_KEY in the environment, the api_key argument
    \* and the function that is called with it
    env_key, api_key, k_target, k_pc, k_calls, k_result

debateVars == <<d_pc, d_round, max_rounds, num_rounds_arg, num_rounds, bill_json,
                transcript, previous_message, calls, d_result>>

ocrVars == <<o_pc, document, min_text_threshold, return_pages, o_pages, o_method,
             text_error, text_calls, ocr_calls, o_result>>

normVars == <<n_pc, n_stage, n_reply, n_result, n_again>>

pipelineVars == <<p_pc, line_items, analysis_items, negotiation_materials, p_calls, p_result>>

runVars == <<r_pc, entry, cli_max_rounds, cli_run_debate, ocr_text, debate_summary,
             service_log, r_result>>

keyVars == <<env_key, api_key, k_target, k_pc, k_calls, k_result>>

vars == <<debateVars, ocrVars, normVars, pipelineVars, runVars, keyVars>>

\* what the steps of one component leave alone
notDebate == <<ocrVars, normVars, pipelineVars, runVars, keyVars>>
notOcr == <<debateVars, normVars, pipelineVars, runVars, keyVars>>
notNorm == <<debateVars, ocrVars, pipelineVars, runVars, keyVars>>
notPipeline == <<debateVars, ocrVars, normVars, runVars, keyVars>>
notRun == <<ocrVars, normVars, keyVars>>
notKey == <<debateVars, ocrVars, normVars, pipelineVars, runVars>>

-----------------------------------------------------------------------------
(* Bounds of the model *)

MaxMaxRounds == 4        \* max_rounds ranges over 1..MaxMaxRounds
MaxRequested == 5        \* num_rounds ranges over -1..MaxRequested, or None
MaxPages == 2            \* a document has 0..MaxPages pages
MaxThreshold == 3        \* min_text_threshold ranges over 0..MaxThreshold
MaxElems == 3            \* mixed payload lists have 0..MaxElems elements
MaxKeys == 3             \* wrapper objects have 0..MaxKeys keys
MaxItems == 2            \* an analysis response has 0..MaxItems line items

-----------------------------------------------------------------------------
(* Python values *)

PyNone == [t |-> "NoneType", n |-> 0, s |-> <<>>]
PyStr(x) == [t |-> "str", n |-> 0, s |-> x]
PyInt(i) == [t |-> "int", n |-> i, s |-> <<>>]
PyFloat(m) == [t |-> "float", n |-> m, s |-> <<>>]
PyBool(b) == [t |-> "bool", n |-> IF b THEN 1 ELSE 0, s |-> <<>>]
\* an opaque non-scalar value (a list or a dict) of k elements
PyList(k) == [t |-> "list", n |-> k, s |-> <<>>]
PyDict(k) == [t |-> "dict", n |-> k, s |-> <<>>]

Min(a, b) == IF a < b THEN a ELSE b
Max(a, b) == IF a > b THEN a ELSE b

IsSpace(c) == c = " "

RECURSIVE LStrip(_)
LStrip(x) == IF x # <<>> /\ IsSpace(Head(x)) THEN LStrip(Tail(x)) ELSE x

RECURSIVE RStrip(_)
RStrip(x) ==
    IF x # <<>> /\ IsSpace(x[Len(x)]) THEN RStrip(SubSeq(x, 1, Len(x) - 1)) ELSE x

\* str.strip()
Strip(x) == RStrip(LStrip(x))

\* the outcome of a call: a returned value or a raised exception
Returned(v) == [ok |-> TRUE, val |-> v, err |-> "none"]
Raised(e) == [ok |-> FALSE, val |-> PyNone, err |-> e]

\* bool(x) of a Python value
Truthy(v) ==
    CASE v.t = "NoneType" -> FALSE
      [] v.t = "str" -> v.s # <<>>
      [] OTHER -> v.n # 0

-----------------------------------------------------------------------------
(* Conversions of Python values: float(x), str(x), s.lower(), and the     *)
(* number syntax of json.loads / json.dumps.  A float is held in           *)
(* thousandths, so values with more than three decimals are not modelled.  *)

Digits == <<"0", "1", "2", "3", "4", "5", "6", "7", "8", "9">>

IsDigit(c) == \E i \in 1..10 : Digits[i] = c

DigitValue(c) == (CHOOSE i \in 1..10 : Digits[i] = c) - 1

AllDigits(x) == \A i \in 1..Len(x) : IsDigit(x[i])

RECURSIVE DigitsValue(_)
DigitsValue(x) ==
    IF x = <<>> THEN 0
    ELSE 10 * DigitsValue(SubSeq(x, 1, Len(x) - 1)) + DigitValue(x[Len(x)])

RECURSIVE NatRepr(_)
NatRepr(k) == IF k < 10 THEN <<Digits[k + 1]>> ELSE NatRepr(k \div 10) \o <<Digits[(k % 10) + 1]>>

\* repr of an int
IntRepr(i) == IF i < 0 THEN <<"-">> \o NatRepr(0 - i) ELSE NatRepr(i)

RECURSIVE DropTrailingZeros(_)
DropTrailingZeros(x) ==
    IF Len(x) > 1 /\ x[Len(x)] = "0" THEN DropTrailingZeros(SubSeq(x, 1, Len(x) - 1)) ELSE x

Abs(i) == IF i < 0 THEN 0 - i ELSE i

\* the three decimals of m thousandths
Millis(m) == <<Digits[((m \div 100) % 10) + 1], Digits[((m \div 10) % 10) + 1], Digits[(m % 10) + 1]>>

\* repr of a float of m thousandths: 1000 -> 1.0, 1500 -> 1.5, 6 -> 0.006
FloatRepr_Truncated(m) == IntRepr(m \div 1000)

FloatRepr(m) ==
    (IF m < 0 THEN <<"-">> ELSE <<>>)
        \o NatRepr(Abs(m) \div 1000) \o <<".">> \o DropTrailingZeros(Millis(Abs(m) % 1000))

HasDot(x) == \E i \in 1..Len(x) : x[i] = "."

DotAt(x) == IF HasDot(x) THEN CHOOSE i \in 1..Len(x) : x[i] = "." ELSE Len(x) + 1

Unsigned(x) == IF x # <<>> /\ x[1] \in {"-", "+"} THEN Tail(x) ELSE x

IntPart(x) == SubSeq(Unsigned(x), 1, DotAt(Unsigned(x)) - 1)

FracPart(x) == SubSeq(Unsigned(x), DotAt(Unsigned(x)) + 1, Len(Unsigned(x)))

\* the decimal syntax float() and json.loads accept (no exponent, inf or nan here)
IsDecimal(x) ==
    /\ AllDigits(IntPart(x))
    /\ AllDigits(FracPart(x))
    /\ Len(IntPart(x)) + Len(FracPart(x)) > 0

\* the value, in thousandths, of a decimal text
DecimalValue(x) ==
    LET frac == SubSeq(FracPart(x) \o <<"0", "0", "0">>, 1, 3)
        mag == 1000 * DigitsValue(IntPart(x)) + DigitsValue(frac)
    IN IF x # <<>> /\ x[1] = "-" THEN 0 - mag ELSE mag

\* float(v): ValueError on a text that is no number, TypeError on None and
\* on containers; surrounding blanks of a text are ignored
FloatOf(v) ==
    CASE v.t = "float" -> Returned(v)
      [] v.t \in {"int", "bool"} -> Returned(PyFloat(1000 * v.n))
      [] v.t = "str" ->
            IF IsDecimal(Strip(v.s))
            THEN Returned(PyFloat(DecimalValue(Strip(v.s))))
            ELSE Raised("ValueError")
      [] OTHER -> Raised("TypeError")

\* str(v); a container prints as brackets around its (unmodelled) elements
StrOf(v) ==
    CASE v.t = "str" -> v.s
      [] v.t = "NoneType" -> <<"N", "o", "n", "e">>
      [] v.t = "bool" -> IF v.n = 1 THEN <<"T", "r", "u", "e">> ELSE <<"F", "a", "l", "s", "e">>
      [] v.t = "int" -> IntRepr(v.n)
      [] v.t = "float" -> FloatRepr(v.n)
      [] v.t = "list" -> IF v.n = 0 THEN <<"[", "]">> ELSE <<"[", "_", "]">>
      [] OTHER -> IF v.n = 0 THEN <<"{", "}">> ELSE <<"{", "_", "}">>

UpperCase == <<"A", "D", "E", "F", "G", "H", "I", "L", "M", "N", "O", "T", "U", "W">>
LowerCase == <<"a", "d", "e", "f", "g", "h", "i", "l", "m", "n", "o", "t", "u", "w">>

LowerChar(c) ==
    IF \E i \in 1..Len(UpperCase) : UpperCase[i] = c
    THEN LowerCase[CHOOSE i \in 1..Len(UpperCase) : UpperCase[i] = c]
    ELSE c

\* s.lower()
Lower(x) == [i \in 1..Len(x) |-> LowerChar(x[i])]

-----------------------------------------------------------------------------
(* JSON text, as the tree of its tokens, and json.loads / json.dumps       *)

TNull == [t |-> "null", lex |-> <<>>, n |-> 0]
TTrue == [t |-> "true", lex |-> <<>>, n |-> 0]
TFalse == [t |-> "false", lex |-> <<>>, n |-> 0]
TNum(lex) == [t |-> "number", lex |-> lex, n |-> 0]
TStr(lex) == [t |-> "string", lex |-> lex, n |-> 0]
\* a nested array or object of k elements, its elements not modelled
TArr(k) == [t |-> "array", lex |-> <<>>, n |-> k]
TObj(k) == [t |-> "object", lex |-> <<>>, n |-> k]

\* a JSON number with a fraction loads as a float, otherwise as an int
LoadTok(tok) ==
    CASE tok.t = "null" -> PyNone
      [] tok.t = "true" -> PyBool(TRUE)
      [] tok.t = "false" -> PyBool(FALSE)
      [] tok.t = "number" ->
            IF HasDot(tok.lex) THEN PyFloat(DecimalValue(tok.lex))
            ELSE PyInt(DecimalValue(tok.lex) \div 1000)
      [] tok.t = "string" -> PyStr(tok.lex)
      [] tok.t = "array" -> PyList(tok.n)
      [] OTHER -> PyDict(tok.n)

DumpVal(v) ==
    CASE v.t = "NoneType" -> TNull
      [] v.t = "bool" -> IF v.n = 1 THEN TTrue ELSE TFalse
      [] v.t = "int" -> TNum(IntRepr(v.n))
      [] v.t = "float" -> TNum(FloatRepr(v.n))
      [] v.t = "str" -> TStr(v.s)
      [] v.t = "list" -> TArr(v.n)
      [] OTHER -> TObj(v.n)

-----------------------------------------------------------------------------
(* The two extraction strategies.  A document is what they can observe of *)
(* the input: whether it is a path and exists, whether pdfplumber opens    *)
(* it, whether Tesseract and the rasterizer work, and what each strategy   *)
(* gets on each page (an exception or a value).                            *)

PageRaises == [kind |-> "raise", v |-> PyNone]
PageGives(v) == [kind |-> "value", v |-> v]

TextPageOutcomes ==
    {PageRaises, PageGives(PyNone), PageGives(PyStr(<<"a">>)),
     PageGives(PyStr(<<" ", "a", "b">>))}

OcrPageOutcomes == {PageRaises, PageGives(PyStr(<<"b", " ">>))}

PageRecs == [text : TextPageOutcomes, ocr : OcrPageOutcomes]

PageSeqs == UNION {[1..k -> PageRecs] : k \in 0..MaxPages}

Documents ==
    {d \in [is_path : BOOLEAN, exists : BOOLEAN, pdf_ok : BOOLEAN,
            tesseract_ok : BOOLEAN, convert_ok : BOOLEAN, pages : PageSeqs] :
        d.is_path \/ d.exists}

NoExc == [type |-> "none", msg |-> <<>>]
Exc(type, msg) == [type |-> type, msg |-> msg]

PagesOf(p) == [ok |-> TRUE, pages |-> p, exc |-> NoExc]
Fails(e) == [ok |-> FALSE, pages |-> <<>>, exc |-> e]

\* pages_text.append(page_text if page_text else ""), "" when the page raises
TextPage(o) == IF o.kind = "value" /\ Truthy(o.v) THEN o.v.s ELSE <<>>

TextPDFExtract_AbortOnPage(doc) ==
    IF doc.is_path /\ ~doc.exists
    THEN Fails(Exc("FileNotFoundError", <<"PDF file not found">>))
    ELSE IF ~doc.pdf_ok \/ \E i \in 1..Len(doc.pages) : doc.pages[i].text.kind = "raise"
    THEN Fails(Exc("ValueError", <<"Failed to extract text from PDF">>))
    ELSE PagesOf([i \in 1..Len(doc.pages) |-> TextPage(doc.pages[i].text)])

TextPDFExtract(doc) ==
    IF doc.is_path /\ ~doc.exists
    THEN Fails(Exc("FileNotFoundError", <<"PDF file not found">>))
    ELSE IF ~doc.pdf_ok
    THEN Fails(Exc("ValueError", <<"Failed to extract text from PDF">>))
    ELSE PagesOf([i \in 1..Len(doc.pages) |-> TextPage(doc.pages[i].text)])

\* pages_text.append(page_text.strip() if page_text else ""), "" when it raises
OcrPage(o) == IF o.kind = "value" /\ Truthy(o.v) THEN Strip(o.v.s) ELSE <<>>

ImageOCRExtract(doc) ==
    IF ~doc.tesseract_ok
    THEN Fails(Exc("ValueError", <<"Tesseract OCR is not installed">>))
    ELSE IF doc.is_path /\ ~doc.exists
    THEN Fails(Exc("FileNotFoundError", <<"File not found">>))
    ELSE IF ~doc.convert_ok
    THEN Fails(Exc("ValueError", <<"Failed to convert PDF to images">>))
    ELSE PagesOf([i \in 1..Len(doc.pages) |-> OcrPage(doc.pages[i].ocr)])

-----------------------------------------------------------------------------
(* OCRPipeline.extract *)

DefaultMinTextThreshold == 50

\* sep.join(pages)
RECURSIVE JoinPages(_, _)
JoinPages(p, sep) ==
    IF p = <<>> THEN <<>>
    ELSE IF Len(p) = 1 THEN p[1]
    ELSE p[1] \o sep \o JoinPages(Tail(p), sep)

\* len("".join(pages).strip())
TotalLength(p) == Len(Strip(JoinPages(p, <<>>)))

TextAccepted_Strict(total_length, threshold) == total_length > threshold

TextAccepted(total_length, threshold) == total_length >= threshold

BothFailedMessage_TextOnly(te, oe) ==
    <<"Both text extraction and OCR failed. ", "Text extraction error: ">>
        \o te.msg \o <<". ", "OCR error: ">> \o te.msg

BothFailedMessage(te, oe) ==
    <<"Both text extraction and OCR failed. ", "Text extraction error: ">>
        \o te.msg \o <<". ", "OCR error: ">> \o oe.msg

NoExtraction ==
    [kind |-> "none", text |-> <<>>, pages |-> <<>>, method |-> "none", exc |-> NoExc]

ExtractionRaises(e) ==
    [kind |-> "raise", text |-> <<>>, pages |-> <<>>, method |-> "none", exc |-> e]

PrepareResult_TextMethod(p, method, rp) ==
    IF rp
    THEN [kind |-> "dict", text |-> JoinPages(p, <<"\n", "\n">>), pages |-> p,
          method |-> "text", exc |-> NoExc]
    ELSE [kind |-> "str", text |-> JoinPages(p, <<"\n", "\n">>), pages |-> <<>>,
          method |-> "none", exc |-> NoExc]

\* text = "\n\n".join(pages); the dict when return_pages, else the text alone
PrepareResult(p, method, rp) ==
    IF rp
    THEN [kind |-> "dict", text |-> JoinPages(p, <<"\n", "\n">>), pages |-> p,
          method |-> method, exc |-> NoExc]
    ELSE [kind |-> "str", text |-> JoinPages(p, <<"\n", "\n">>), pages |-> <<>>,
          method |-> "none", exc |-> NoExc]

ocrInputs == <<document, min_text_threshold, return_pages>>

ExtractTryText ==
    /\ o_pc = "start"
    /\ text_calls' = text_calls + 1
    /\ LET out == TextPDFExtract(document)
       IN IF ~out.ok
          THEN /\ text_error' = out.exc
               /\ o_pc' = "except"
               /\ UNCHANGED <<o_pages, o_method>>
          ELSE /\ o_pages' = out.pages
               /\ UNCHANGED text_error
               /\ IF TextAccepted(TotalLength(out.pages), min_text_threshold)
                  THEN o_method' = "text" /\ o_pc' = "prepare"
                  ELSE o_method' = o_method /\ o_pc' = "fallback"
    /\ UNCHANGED <<ocrInputs, ocr_calls, o_result>>
    /\ UNCHANGED notOcr

\* the fallback inside the try block: what it raises lands in text_error
ExtractFallbackInTry ==
    /\ o_pc = "fallback"
    /\ ocr_calls' = ocr_calls + 1
    /\ LET out == ImageOCRExtract(document)
       IN IF out.ok
          THEN /\ o_pages' = out.pages
               /\ o_method' = "ocr"
               /\ o_pc' = "prepare"
               /\ UNCHANGED text_error
          ELSE /\ text_error' = out.exc
               /\ o_pc' = "except"
               /\ UNCHANGED <<o_pages, o_method>>
    /\ UNCHANGED <<ocrInputs, text_calls, o_result>>
    /\ UNCHANGED notOcr

ExtractFallbackInExcept ==
    /\ o_pc = "except"
    /\ ocr_calls' = ocr_calls + 1
    /\ LET out == ImageOCRExtract(document)
       IN IF out.ok
          THEN /\ o_pages' = out.pages
               /\ o_method' = "ocr"
               /\ o_pc' = "prepare"
               /\ UNCHANGED o_result
          ELSE /\ o_result' =
                    ExtractionRaises(Exc("ValueError", BothFailedMessage(text_error, out.exc)))
               /\ o_pc' = "raised"
               /\ UNCHANGED <<o_pages, o_method>>
    /\ UNCHANGED <<ocrInputs, text_calls, text_error>>
    /\ UNCHANGED notOcr

ExtractPrepareResult ==
    /\ o_pc = "prepare"
    /\ o_result' = PrepareResult(o_pages, o_method, return_pages)
    /\ o_pc' = "returned"
    /\ UNCHANGED <<ocrInputs, o_pages, o_method, text_error, text_calls, ocr_calls>>
    /\ UNCHANGED notOcr

-----------------------------------------------------------------------------
(* The response of a JSON-mode completion call: no JSON at all, or a JSON *)
(* text.  A JSON text is its top value: an array of elements, an object    *)
(* of key/value pairs in their order, or a scalar; an element is an object *)
(* (its fields) or something else; a value under a key is an array of      *)
(* elements, or an object or scalar whose content does not matter.         *)

NoFields == [f \in {} |-> TNull]

ObjElem(fields) == [kind |-> "object", fields |-> fields, v |-> TNull]
OtherElem(tok) == [kind |-> "other", fields |-> NoFields, v |-> tok]

ArrVal(items) == [kind |-> "array", items |-> items, v |-> TNull]
OtherVal(tok) == [kind |-> IF tok.t = "object" THEN "object" ELSE "scalar",
                  items |-> <<>>, v |-> tok]

ArrayDoc(items) == [kind |-> "array", items |-> items, pairs |-> <<>>, v |-> TNull]
ObjectDoc(pairs) == [kind |-> "object", items |-> <<>>, pairs |-> pairs, v |-> TNull]
ScalarDoc(tok) == [kind |-> "scalar", items |-> <<>>, pairs |-> <<>>, v |-> tok]
InvalidDoc == [kind |-> "invalid", items |-> <<>>, pairs |-> <<>>, v |-> TNull]

LoadElem(e) ==
    [kind |-> IF e.kind = "object" THEN "dict" ELSE "other",
     fields |-> [f \in DOMAIN e.fields |-> LoadTok(e.fields[f])],
     v |-> LoadTok(e.v)]

LoadKind(k) == IF k = "array" THEN "list" ELSE IF k = "object" THEN "dict" ELSE "scalar"

LoadVal(x) ==
    [kind |-> LoadKind(x.kind),
     items |-> [i \in 1..Len(x.items) |-> LoadElem(x.items[i])],
     v |-> LoadTok(x.v)]

\* json.loads(content): JSONDecodeError on a text that is no JSON
JsonLoads(doc) ==
    IF doc.kind = "invalid" THEN Raised("JSONDecodeError")
    ELSE [ok |-> TRUE, err |-> "none",
          val |-> [kind |-> LoadKind(doc.kind),
                   items |-> [i \in 1..Len(doc.items) |-> LoadElem(doc.items[i])],
                   pairs |-> [i \in 1..Len(doc.pairs) |->
                                [k |-> doc.pairs[i].k, val |-> LoadVal(doc.pairs[i].val)]],
                   v |-> LoadTok(doc.v)]]

\* json.dumps of a list of records
JsonDumps(records) ==
    ArrayDoc([i \in 1..Len(records) |->
                ObjElem([f \in DOMAIN records[i] |-> DumpVal(records[i][f])])])

-----------------------------------------------------------------------------
(* extraction_agent and analysis_agent: from the parsed response to the   *)
(* list of normalized records                                              *)

HasKey(parsed, k) == \E i \in 1..Len(parsed.pairs) : parsed.pairs[i].k = k

ValueAt(parsed, k) ==
    parsed.pairs[CHOOSE i \in 1..Len(parsed.pairs) : parsed.pairs[i].k = k].val

EmptyList == [kind |-> "list", items |-> <<>>, v |-> PyNone]

\* next((v for v in parsed.values() if isinstance(v, list)), [])
FirstListValue(parsed) ==
    LET isList(i) == parsed.pairs[i].val.kind = "list"
    IN IF \E i \in 1..Len(parsed.pairs) : isList(i)
       THEN parsed.pairs[CHOOSE i \in 1..Len(parsed.pairs) :
                            isList(i) /\ \A j \in 1..(i - 1) : ~isList(j)].val
       ELSE EmptyList

AsValue(parsed) == [kind |-> parsed.kind, items |-> parsed.items, v |-> parsed.v]

SelectExtraction(parsed) ==
    IF parsed.kind = "dict"
    THEN IF HasKey(parsed, "line_items") THEN ValueAt(parsed, "line_items")
         ELSE IF HasKey(parsed, "items") THEN ValueAt(parsed, "items")
         ELSE IF Len(parsed.pairs) = 1 THEN parsed.pairs[1].val
         ELSE FirstListValue(parsed)
    ELSE AsValue(parsed)

SelectAnalysis_DictOnly(parsed) ==
    IF parsed.kind = "dict"
    THEN IF HasKey(parsed, "line_items") THEN ValueAt(parsed, "line_items")
         ELSE IF HasKey(parsed, "items") THEN ValueAt(parsed, "items")
         ELSE IF HasKey(parsed, "analysis") THEN ValueAt(parsed, "analysis")
         ELSE IF Len(parsed.pairs) = 1 THEN parsed.pairs[1].val
         ELSE FirstListValue(parsed)
    ELSE EmptyList

SelectAnalysis_ItemsFirst(parsed) ==
    IF parsed.kind = "dict"
    THEN IF HasKey(parsed, "items") THEN ValueAt(parsed, "items")
         ELSE IF HasKey(parsed, "line_items") THEN ValueAt(parsed, "line_items")
         ELSE IF HasKey(parsed, "analysis") THEN ValueAt(parsed, "analysis")
         ELSE IF Len(parsed.pairs) = 1 THEN parsed.pairs[1].val
         ELSE FirstListValue(parsed)
    ELSE AsValue(parsed)

SelectAnalysis(parsed) ==
    IF parsed.kind = "dict"
    THEN IF HasKey(parsed, "line_items") THEN ValueAt(parsed, "line_items")
         ELSE IF HasKey(parsed, "items") THEN ValueAt(parsed, "items")
         ELSE IF HasKey(parsed, "analysis") THEN ValueAt(parsed, "analysis")
         ELSE IF Len(parsed.pairs) = 1 THEN parsed.pairs[1].val
         ELSE FirstListValue(parsed)
    ELSE AsValue(parsed)

\* item.get(key, default)
Get(item, key, default) ==
    IF key \in DOMAIN item.fields THEN item.fields[key] ELSE default

\* str(item.get(key, "")).strip()
TextField(item, key) == PyStr(Strip(StrOf(Get(item, key, PyStr(<<>>)))))

\* item.get(key) if item.get(key) else None
OptionalField(item, key) ==
    IF Truthy(Get(item, key, PyNone)) THEN Get(item, key, PyNone) ELSE PyNone

DefaultQuantity == PyFloat(1000)
DefaultPrice == PyFloat(0)

QuantityOf(item) == FloatOf(Get(item, "quantity", DefaultQuantity))
PriceOf(item) == FloatOf(Get(item, "price", DefaultPrice))

ExpectedCostOf_ZeroDefault(item) == FloatOf(Get(item, "expected_cost", DefaultPrice))

\* float(item.get("expected_cost", item.get("price", 0.0)))
ExpectedCostOf(item) == FloatOf(Get(item, "expected_cost", Get(item, "price", DefaultPrice)))

CanonicalFlagLevels == {<<"l", "o", "w">>, <<"m", "e", "d", "i", "u", "m">>, <<"h", "i", "g", "h">>}

FlagLevelOf_Unvalidated(item) ==
    PyStr(Lower(StrOf(Get(item, "flag_level", PyStr(<<"l", "o", "w">>)))))

\* str(item.get("flag_level", "low")).lower(), then "low" unless canonical
FlagLevelOf(item) ==
    LET level == Lower(StrOf(Get(item, "flag_level", PyStr(<<"l", "o", "w">>))))
    IN IF level \in CanonicalFlagLevels THEN PyStr(level) ELSE PyStr(<<"l", "o", "w">>)

NoRecord == [f \in {} |-> PyNone]

RecordOf(r) == [ok |-> TRUE, rec |-> r, err |-> "none"]
RecordRaises(e) == [ok |-> FALSE, rec |-> NoRecord, err |-> e]

\* the dict display of extraction_agent; the first cast that fails raises
NormalizeLineItem(item) ==
    IF ~QuantityOf(item).ok THEN RecordRaises(QuantityOf(item).err)
    ELSE IF ~PriceOf(item).ok THEN RecordRaises(PriceOf(item).err)
    ELSE RecordOf([code |-> TextField(item, "code"),
                   description |-> TextField(item, "description"),
                   quantity |-> QuantityOf(item).val,
                   price |-> PriceOf(item).val,
                   notes |-> OptionalField(item, "notes")])

\* the dict display of analysis_agent and its flag_level validation
NormalizeAnalysisItem(item) ==
    IF ~QuantityOf(item).ok THEN RecordRaises(QuantityOf(item).err)
    ELSE IF ~PriceOf(item).ok THEN RecordRaises(PriceOf(item).err)
    ELSE IF ~ExpectedCostOf(item).ok THEN RecordRaises(ExpectedCostOf(item).err)
    ELSE RecordOf([code |-> TextField(item, "code"),
                   description |-> TextField(item, "description"),
                   quantity |-> QuantityOf(item).val,
                   price |-> PriceOf(item).val,
                   notes |-> OptionalField(item, "notes"),
                   expected_cost |-> ExpectedCostOf(item).val,
                   overcharge_flag |-> PyBool(Truthy(Get(item, "overcharge_flag", PyBool(FALSE)))),
                   flag_level |-> FlagLevelOf(item),
                   issue |-> OptionalField(item, "issue")])

NormalizeItem(stage, item) ==
    IF stage = "analysis" THEN NormalizeAnalysisItem(item) ELSE NormalizeLineItem(item)

IsDict(e) == e.kind = "dict"

\* the elements the loop keeps: `if not isinstance(item, dict): continue`
DictItems(items) == SelectSeq(items, IsDict)

StageReturns(records) == [kind |-> "ok", items |-> records, err |-> "none"]
StageRaises(e) == [kind |-> "raise", items |-> <<>>, err |-> e]

NormalizeList_Strict(stage, items) ==
    LET out == [i \in 1..Len(items) |-> NormalizeItem(stage, items[i])]
    IN IF \E i \in 1..Len(items) : ~IsDict(items[i]) \/ ~out[i].ok
       THEN StageRaises("ValueError")
       ELSE StageReturns([i \in 1..Len(out) |-> out[i].rec])

\* the loop over the list: the first record that raises ends the stage
NormalizeList(stage, items) ==
    LET kept == DictItems(items)
        out == [i \in 1..Len(kept) |-> NormalizeItem(stage, kept[i])]
    IN IF \E i \in 1..Len(out) : ~out[i].ok
       THEN StageRaises(out[CHOOSE i \in 1..Len(out) :
                                ~out[i].ok /\ \A j \in 1..(i - 1) : out[j].ok].err)
       ELSE StageReturns([i \in 1..Len(out) |-> out[i].rec])

\* a completion call in JSON mode raises, or returns content: None or a text
ApiRaises == [kind |-> "raise", none |-> FALSE, doc |-> InvalidDoc]
NoContent == [kind |-> "content", none |-> TRUE, doc |-> InvalidDoc]
Content(doc) == [kind |-> "content", none |-> FALSE, doc |-> doc]

ParseAndNormalize_Lenient(stage, reply) ==
    IF reply.kind = "raise" THEN StageRaises("APIError")
    ELSE IF reply.none THEN StageRaises("TypeError")
    ELSE IF ~JsonLoads(reply.doc).ok THEN StageRaises("ValueError: Invalid JSON response")
    ELSE LET parsed == JsonLoads(reply.doc).val
             payload == IF stage = "analysis" THEN SelectAnalysis(parsed)
                        ELSE SelectExtraction(parsed)
         IN IF payload.kind # "list" THEN StageReturns(<<>>)
            ELSE NormalizeList(stage, payload.items)

\* from the completion call's reply to the stage's return value or exception:
\* json.loads(None) raises TypeError, JSONDecodeError becomes ValueError
ParseAndNormalize(stage, reply) ==
    IF reply.kind = "raise" THEN StageRaises("APIError")
    ELSE IF reply.none THEN StageRaises("TypeError")
    ELSE IF ~JsonLoads(reply.doc).ok THEN StageRaises("ValueError: Invalid JSON response")
    ELSE LET parsed == JsonLoads(reply.doc).val
             payload == IF stage = "analysis" THEN SelectAnalysis(parsed)
                        ELSE SelectExtraction(parsed)
         IN IF payload.kind # "list" THEN StageRaises("ValueError: Response is not a list")
            ELSE NormalizeList(stage, payload.items)

-----------------------------------------------------------------------------
(* The replies the normalizers are run on *)

FieldNames ==
    {"code", "description", "quantity", "price", "notes",
     "expected_cost", "overcharge_flag", "flag_level", "issue"}

NumericToks ==
    {TNum(<<"2">>), TNum(<<"1", ".", "5">>), TNum(<<"-", "3">>), TStr(<<"2">>),
     TStr(<<" ", "2", ".", "5">>), TStr(<<"a">>), TStr(<<>>), TNull, TTrue, TArr(1)}

TextToks ==
    {TStr(<<" ", "x", " ">>), TStr(<<>>), TNum(<<"1", "2">>), TNum(<<"1", ".", "5">>), TNull}

OptionalToks ==
    {TNull, TStr(<<>>), TStr(<<" ", "n">>), TNum(<<"0">>), TFalse, TArr(0), TArr(1)}

FlagToks ==
    {TTrue, TFalse, TNull, TStr(<<"f", "a", "l", "s", "e">>), TNum(<<"0">>), TNum(<<"1">>)}

LevelToks ==
    {TStr(<<"l", "o", "w">>), TStr(<<"m", "e", "d", "i", "u", "m">>),
     TStr(<<"h", "i", "g", "h">>), TStr(<<"H", "I", "G", "H">>),
     TStr(<<"M", "e", "d", "i", "u", "m">>), TStr(<<"h", "i", "g", "h", " ">>),
     TStr(<<"u", "r", "g", "e", "n", "t">>), TStr(<<>>), TNull, TTrue, TNum(<<"1">>)}

FieldToks(f) ==
    CASE f \in {"quantity", "price", "expected_cost"} -> NumericToks
      [] f \in {"code", "description"} -> TextToks
      [] f \in {"notes", "issue"} -> OptionalToks
      [] f = "overcharge_flag" -> FlagToks
      [] OTHER -> LevelToks

FullItem ==
    [code |-> TStr(<<"x">>), description |-> TStr(<<"d">>),
     quantity |-> TNum(<<"2", ".", "0">>), price |-> TNum(<<"1", ".", "5">>),
     notes |-> TNull, expected_cost |-> TNum(<<"1", ".", "0">>),
     overcharge_flag |-> TTrue, flag_level |-> TStr(<<"m", "e", "d", "i", "u", "m">>),
     issue |-> TStr(<<"i">>)]

With(item, f, tok) == [g \in (DOMAIN item) \cup {f} |-> IF g = f THEN tok ELSE item[g]]

Without(item, f) == [g \in (DOMAIN item) \ {f} |-> item[g]]

\* records that differ from the empty or the well-formed record in one field,
\* and records that give a price with or without an expected_cost
VariedItems ==
    {NoFields, FullItem}
        \cup UNION {{With(b, f, tok) : b \in {NoFields, FullItem}, tok \in FieldToks(f)} :
                        f \in FieldNames}
        \cup {Without(FullItem, f) : f \in FieldNames}
        \cup {With(With(NoFields, "price", p), "expected_cost", e) :
                p \in NumericToks, e \in NumericToks}

MixedElems ==
    {ObjElem(FullItem), ObjElem(NoFields), ObjElem(With(NoFields, "code", TStr(<<"x">>))),
     OtherElem(TStr(<<"s">>)), OtherElem(TNull), OtherElem(TArr(1))}

MixedLists == UNION {[1..k -> MixedElems] : k \in 0..MaxElems}

WrapperKeys == {"line_items", "items", "analysis", "data", "meta"}

WrapperValues ==
    {ArrVal(<<ObjElem(FullItem)>>), ArrVal(<<>>), OtherVal(TStr(<<"s">>)), OtherVal(TObj(1))}

KeySeqs(k) == {ks \in [1..k -> WrapperKeys] : \A i, j \in 1..k : ks[i] = ks[j] => i = j}

PairSeqs ==
    UNION {{[i \in 1..k |-> [k |-> ks[i], val |-> vs[i]]] :
                ks \in KeySeqs(k), vs \in [1..k -> WrapperValues]} : k \in 0..MaxKeys}

Under(key, items) == ObjectDoc(<<[k |-> key, val |-> ArrVal(items)]>>)

NormDocs ==
    {InvalidDoc, ScalarDoc(TNull), ScalarDoc(TStr(<<"s">>)), ScalarDoc(TNum(<<"1">>))}
        \cup {ArrayDoc(<<ObjElem(x)>>) : x \in VariedItems}
        \cup {Under("line_items", <<ObjElem(x)>>) : x \in VariedItems}
        \cup {ArrayDoc(l) : l \in MixedLists}
        \cup {Under("items", l) : l \in MixedLists}
        \cup {Under("analysis", <<ObjElem(With(NoFields, "code", TStr(<<"X">>)))>>)}
        \cup {ObjectDoc(p) : p \in PairSeqs}

NormReplies == {ApiRaises, NoContent} \cup {Content(d) : d \in NormDocs}

NoStageResult == [kind |-> "none", items |-> <<>>, err |-> "none"]

\* one stage's response handling: parse, unwrap, normalize
NormalizeResponse ==
    /\ n_pc = "start"
    /\ n_result' = ParseAndNormalize(n_stage, n_reply)
    /\ n_pc' = "done"
    /\ UNCHANGED <<n_stage, n_reply, n_again>>
    /\ UNCHANGED notNorm

\* the returned list, encoded with json.dumps, is normalized once more
NormalizeAgain ==
    /\ n_pc = "done"
    /\ n_result.kind = "ok"
    /\ n_again' = ParseAndNormalize(n_stage, Content(JsonDumps(n_result.items)))
    /\ n_pc' = "again"
    /\ UNCHANGED <<n_stage, n_reply, n_result>>
    /\ UNCHANGED notNorm

-----------------------------------------------------------------------------
(* negotiation_agent *)

NoMaterials == [email |-> <<>>, phone_script |-> <<>>, summary |-> <<>>]

MaterialsOf(m) == [ok |-> TRUE, val |-> m, err |-> "none"]
MaterialsRaise(e) == [ok |-> FALSE, val |-> NoMaterials, err |-> e]

\* str(parsed.get(key, "")).strip() on the parsed object
MaterialField(parsed, key) ==
    IF HasKey(parsed, key) THEN Strip(StrOf(ValueAt(parsed, key).v)) ELSE <<>>

NegotiationAgent_Swallow(reply) ==
    IF reply.kind = "raise" THEN MaterialsOf(NoMaterials)
    ELSE IF reply.none THEN MaterialsRaise("TypeError")
    ELSE IF ~JsonLoads(reply.doc).ok THEN MaterialsRaise("ValueError: Invalid JSON response")
    ELSE LET parsed == JsonLoads(reply.doc).val
         IN IF parsed.kind # "dict" THEN MaterialsRaise("AttributeError")
            ELSE MaterialsOf([email |-> MaterialField(parsed, "email"),
                              phone_script |-> MaterialField(parsed, "phone_script"),
                              summary |-> MaterialField(parsed, "summary")])

\* parsed.get raises AttributeError when the JSON text is no object
NegotiationAgent(reply) ==
    IF reply.kind = "raise" THEN MaterialsRaise("APIError")
    ELSE IF reply.none THEN MaterialsRaise("TypeError")
    ELSE IF ~JsonLoads(reply.doc).ok THEN MaterialsRaise("ValueError: Invalid JSON response")
    ELSE LET parsed == JsonLoads(reply.doc).val
         IN IF parsed.kind # "dict" THEN MaterialsRaise("AttributeError")
            ELSE MaterialsOf([email |-> MaterialField(parsed, "email"),
                              phone_script |-> MaterialField(parsed, "phone_script"),
                              summary |-> MaterialField(parsed, "summary")])

PlaceholderMaterials_Blank == NoMaterials

\* the fixed materials of a bill without line items
PlaceholderMaterials ==
    [email |-> <<"No line items were extracted from this bill. Please review the document manually.">>,
     phone_script |-> <<"No specific issues were identified. Please review the bill with the billing department.">>,
     summary |-> <<"The bill could not be automatically processed. Please review it manually or try again with a clearer image/PDF.">>]

-----------------------------------------------------------------------------
(* process_medical_bill: the three stages and the summary statistics.     *)
(* Amounts are floats in thousandths, so a product price x quantity is in  *)
(* millionths; the reported statistics are in cents.                       *)

\* item.get(key, default) on a normalized record
GetOf(rec, key, default) == IF key \in DOMAIN rec THEN rec[key] ELSE default

RECURSIVE SumOver(_, _, _)
SumOver(items, key, default) ==
    IF items = <<>> THEN 0
    ELSE GetOf(Head(items), key, default).n * GetOf(Head(items), "quantity", DefaultQuantity).n
            + SumOver(Tail(items), key, default)

\* sum(item.get("price", 0.0) * item.get("quantity", 1.0) ...), in millionths
TotalBilled(items) == SumOver(items, "price", DefaultPrice)

TotalExpected_Unweighted(items) ==
    SumOver([i \in 1..Len(items) |-> [items[i] EXCEPT !.quantity = DefaultQuantity]],
            "expected_cost", PyFloat(0))

\* sum(item.get("expected_cost", 0.0) * item.get("quantity", 1.0) ...)
TotalExpected(items) == SumOver(items, "expected_cost", PyFloat(0))

IsFlagged_ByDelta(rec) ==
    GetOf(rec, "price", DefaultPrice).n > GetOf(rec, "expected_cost", PyFloat(0)).n

IsFlagged(rec) == Truthy(GetOf(rec, "overcharge_flag", PyBool(FALSE)))

\* sum(1 for item in analysis_items if item.get("overcharge_flag", False))
FlaggedItems(items) == Len(SelectSeq(items, IsFlagged))

\* round(x, 2) of x millionths, in cents.  Half a cent has no exact binary
\* float, so which way it goes depends on the float at hand: `up` is that way.
Round2(x, up) ==
    LET q == x \div 10000
        r == x % 10000
    IN IF r < 5000 THEN q ELSE IF r > 5000 THEN q + 1 ELSE IF up THEN q + 1 ELSE q

PotentialSavings_Clamped(billed, expected, up) == Max(0, Round2(billed - expected, up))

\* round(total_billed - total_expected, 2)
PotentialSavings(billed, expected, up) == Round2(billed - expected, up)

SummaryStats(items, upBilled, upExpected, upSavings) ==
    [total_items |-> Len(items),
     total_billed |-> Round2(TotalBilled(items), upBilled),
     total_expected |-> Round2(TotalExpected(items), upExpected),
     potential_savings |-> PotentialSavings(TotalBilled(items), TotalExpected(items), upSavings),
     flagged_items |-> FlaggedItems(items)]

NoStats ==
    [total_items |-> 0, total_billed |-> 0, total_expected |-> 0,
     potential_savings |-> 0, flagged_items |-> 0]

NoPipelineResult ==
    [kind |-> "none", extraction |-> <<>>, analysis |-> <<>>,
     negotiation |-> NoMaterials, summary_stats |-> NoStats, err |-> "none"]

PipelineRaises(e) == [NoPipelineResult EXCEPT !.kind = "raise", !.err = e]

\* the replies of the three completion calls of one run
BilledItem(price, quantity) ==
    [code |-> TStr(<<"x">>), price |-> TNum(price), quantity |-> TNum(quantity)]

ExtractionReplies ==
    {ApiRaises, Content(InvalidDoc), Content(Under("line_items", <<>>)),
     Content(Under("line_items", <<ObjElem(BilledItem(<<"1">>, <<"2">>))>>))}

Prices == {<<"0", ".", "0", "0", "4">>, <<"0", ".", "0", "0", "6">>, <<"1">>}
Quantities == {<<"1">>, <<"2">>}
ExpectedCosts == {<<"0", ".", "0", "0", "2">>, <<"1", ".", "0", "1">>}

AnalysedItems ==
    {BilledItem(p, q) : p \in Prices, q \in Quantities}
        \cup {With(BilledItem(p, q), "expected_cost", TNum(e)) :
                p \in Prices, q \in Quantities, e \in ExpectedCosts}
        \cup {With(BilledItem(<<"1">>, <<"1">>), "overcharge_flag", TTrue),
              With(With(BilledItem(<<"1">>, <<"1">>), "expected_cost", TNum(<<"1", ".", "0", "1">>)),
                   "overcharge_flag", TTrue)}

AnalysedLists == UNION {[1..k -> {ObjElem(x) : x \in AnalysedItems}] : k \in 0..MaxItems}

\* three items: price 100 x 1 expected 80, 50 x 2 expected 50, 10 x 1 expected 10
ThreeItems ==
    <<ObjElem(With(BilledItem(<<"1", "0", "0">>, <<"1">>), "expected_cost", TNum(<<"8", "0">>))),
      ObjElem(With(BilledItem(<<"5", "0">>, <<"2">>), "expected_cost", TNum(<<"5", "0">>))),
      ObjElem(With(BilledItem(<<"1", "0">>, <<"1">>), "expected_cost", TNum(<<"1", "0">>)))>>

AnalysisReplies ==
    {ApiRaises, Content(InvalidDoc), Content(Under("line_items", ThreeItems))}
        \cup {Content(Under("line_items", l)) : l \in AnalysedLists}

Materials(email, phone, summary) ==
    ObjectDoc(<<[k |-> "email", val |-> OtherVal(TStr(email))],
                [k |-> "phone_script", val |-> OtherVal(TStr(phone))],
                [k |-> "summary", val |-> OtherVal(TStr(summary))]>>)

NegotiationReplies ==
    {ApiRaises, Content(InvalidDoc), Content(ArrayDoc(<<>>)),
     Content(Materials(<<"e", " ">>, <<"p">>, <<>>))}

\* an extraction step that calls the agent again when it raised
RunExtraction_Retry ==
    /\ p_pc = "extraction"
    /\ \E reply \in ExtractionReplies :
        LET out == ParseAndNormalize("extraction", reply)
        IN /\ p_calls' = Append(p_calls, "extraction")
           /\ IF out.kind = "ok"
              THEN /\ line_items' = out.items
                   /\ p_pc' = "analysis"
              ELSE /\ p_pc' = "extraction"
                   /\ UNCHANGED line_items
    /\ UNCHANGED <<analysis_items, negotiation_materials, p_result>>
    /\ UNCHANGED notPipeline

\* Step 1: extraction_agent
RunExtraction ==
    /\ p_pc = "extraction"
    /\ \E reply \in ExtractionReplies :
        LET out == ParseAndNormalize("extraction", reply)
        IN /\ p_calls' = Append(p_calls, "extraction")
           /\ IF out.kind = "ok"
              THEN /\ line_items' = out.items
                   /\ p_pc' = "analysis"
                   /\ UNCHANGED p_result
              ELSE /\ p_result' = PipelineRaises(out.err)
                   /\ p_pc' = "raised"
                   /\ UNCHANGED line_items
    /\ UNCHANGED <<analysis_items, negotiation_materials>>
    /\ UNCHANGED notPipeline

\* Step 2: analysis_agent, skipped for an empty extraction
RunAnalysis ==
    /\ p_pc = "analysis"
    /\ IF line_items # <<>>
       THEN \E reply \in AnalysisReplies :
            LET out == ParseAndNormalize("analysis", reply)
            IN /\ p_calls' = Append(p_calls, "analysis")
               /\ IF out.kind = "ok"
                  THEN /\ analysis_items' = out.items
                       /\ p_pc' = "negotiation"
                       /\ UNCHANGED p_result
                  ELSE /\ p_result' = PipelineRaises(out.err)
                       /\ p_pc' = "raised"
                       /\ UNCHANGED analysis_items
       ELSE /\ analysis_items' = <<>>
            /\ p_pc' = "negotiation"
            /\ UNCHANGED <<p_calls, p_result>>
    /\ UNCHANGED <<line_items, negotiation_materials>>
    /\ UNCHANGED notPipeline

\* Step 3: negotiation_agent, or the placeholder for an empty analysis
RunNegotiation ==
    /\ p_pc = "negotiation"
    /\ IF analysis_items # <<>>
       THEN \E reply \in NegotiationReplies :
            LET out == NegotiationAgent(reply)
            IN /\ p_calls' = Append(p_calls, "negotiation")
               /\ IF out.ok
                  THEN /\ negotiation_materials' = out.val
                       /\ p_pc' = "compile"
                       /\ UNCHANGED p_result
                  ELSE /\ p_result' = PipelineRaises(out.err)
                       /\ p_pc' = "raised"
                       /\ UNCHANGED negotiation_materials
       ELSE /\ negotiation_materials' = PlaceholderMaterials
            /\ p_pc' = "compile"
            /\ UNCHANGED <<p_calls, p_result>>
    /\ UNCHANGED <<line_items, analysis_items>>
    /\ UNCHANGED notPipeline

\* the summary statistics and the returned dict
CompileResult ==
    /\ p_pc = "compile"
    /\ \E upBilled, upExpected, upSavings \in BOOLEAN :
        p_result' = [kind |-> "dict", extraction |-> line_items, analysis |-> analysis_items,
                     negotiation |-> negotiation_materials,
                     summary_stats |-> SummaryStats(analysis_items, upBilled, upExpected, upSavings),
                     err |-> "none"]
    /\ p_pc' = "returned"
    /\ UNCHANGED <<line_items, analysis_items, negotiation_materials, p_calls>>
    /\ UNCHANGED notPipeline

-----------------------------------------------------------------------------
(* Completion Service, as seen by a debate turn: the call raises, or the  *)
(* message content is None, or it is a text.                               *)

DebateTexts == {<<>>, <<" ", "a">>, <<"b">>}

DebateReplies ==
    {[kind |-> "raise", content |-> PyNone], [kind |-> "content", content |-> PyNone]}
        \cup {[kind |-> "content", content |-> PyStr(x)] : x \in DebateTexts}

\* the opening template is chosen when previous_message is None
Template(prev) == IF prev = PyNone THEN "opening" ELSE "rebuttal"

\* len(content) in the debug line raises TypeError on None; content.strip()
FighterGenerateResponse_Swallow(prev, bill, round_number, reply) ==
    IF reply.kind = "raise" \/ reply.content.t = "NoneType"
    THEN Returned(PyStr(<<>>))
    ELSE Returned(PyStr(Strip(reply.content.s)))

FighterGenerateResponse(prev, bill, round_number, reply) ==
    IF reply.kind = "raise" THEN Raised("APIError")
    ELSE IF reply.content.t = "NoneType" THEN Raised("TypeError")
    ELSE Returned(PyStr(Strip(reply.content.s)))

HospitalGenerateResponse(prev, bill, round_number, reply) ==
    IF reply.kind = "raise" THEN Raised("APIError")
    ELSE IF reply.content.t = "NoneType" THEN Raised("TypeError")
    ELSE Returned(PyStr(Strip(reply.content.s)))

-----------------------------------------------------------------------------
(* DebateManager.run_debate *)

HardCodedRounds == 3

\* a list, possibly empty, or something that is not a list
DebateItem ==
    [price |-> PyFloat(1500), quantity |-> PyFloat(2000), expected_cost |-> PyFloat(1000),
     overcharge_flag |-> PyBool(TRUE)]

DebateBills ==
    {[kind |-> "list", items |-> <<>>],
     [kind |-> "list", items |-> <<DebateItem>>],
     [kind |-> "dict", items |-> <<DebateItem>>]}

BillInvalid_EmptyOnly(bill) == bill.items = <<>>

\* `not bill_json or not isinstance(bill_json, list)`
BillInvalid(bill) == bill.items = <<>> \/ bill.kind # "list"

ClampRounds(requested, maxr) ==
    LET n == IF requested # PyNone THEN requested.n ELSE maxr
    IN Max(1, Min(n, maxr))

\* round 1 passes the literal None, later rounds the local previous_message
FighterPrevious_AlwaysNone(r, prev) == PyNone

FighterPrevious(r, prev) == IF r = 1 THEN PyNone ELSE prev

AppendMessage_Prepend(t, role, content) ==
    <<[role |-> role, content |-> content.s]>> \o t

AppendMessage(t, role, content) ==
    Append(t, [role |-> role, content |-> content.s])

\* the guards `if num_rounds >= 2` and `if num_rounds >= 3`
RoundFollows(r, n) == r < HardCodedRounds /\ n >= r + 1

\* the figures a turn computes from bill_json for its prompt
BillFigures(bill) ==
    [total_billed |-> TotalBilled(bill.items), total_expected |-> TotalExpected(bill.items),
     flagged_items |-> FlaggedItems(bill.items), items |-> Len(bill.items)]

Call(agent, bill, prev, r, reply) ==
    [agent |-> agent, previous_message |-> prev, round_number |-> r,
     template |-> Template(prev), bill_json |-> bill, figures |-> BillFigures(bill),
     reply |-> reply]

\* what run_debate gives its caller: nothing yet, an exception, the transcript
NoResult == [kind |-> "none", items |-> <<>>, err |-> "none"]

DebateRaises(e) == [kind |-> "raise", items |-> <<>>, err |-> e]

RunDebateStart ==
    /\ d_pc = "start"
    /\ IF BillInvalid(bill_json)
       THEN /\ d_pc' = "raised"
            /\ d_result' = DebateRaises("ValueError")
            /\ UNCHANGED <<num_rounds, transcript, previous_message>>
       ELSE /\ num_rounds' = ClampRounds(num_rounds_arg, max_rounds)
            /\ transcript' = <<>>
            /\ previous_message' = PyNone
            /\ d_pc' = "fighter"
            /\ UNCHANGED d_result
    /\ UNCHANGED <<d_round, max_rounds, num_rounds_arg, bill_json, calls>>
    /\ UNCHANGED notDebate

\* a fighter turn that keeps only the flagged items in the list it was given
FighterTurn_FiltersInPlace ==
    /\ d_pc = "fighter"
    /\ \E reply \in DebateReplies :
        LET prev == FighterPrevious(d_round, previous_message)
            out == FighterGenerateResponse(prev, bill_json, d_round, reply)
        IN /\ calls' = Append(calls, Call("fighter", bill_json, prev, d_round, reply))
           /\ IF out.ok
              THEN /\ transcript' = AppendMessage(transcript, "fighter", out.val)
                   /\ previous_message' = out.val
                   /\ d_pc' = "hospital"
                   /\ UNCHANGED d_result
              ELSE /\ d_pc' = "raised"
                   /\ d_result' = DebateRaises(out.err)
                   /\ UNCHANGED <<transcript, previous_message>>
    /\ bill_json' = [bill_json EXCEPT !.items = SelectSeq(@, IsFlagged)]
    /\ UNCHANGED <<d_round, max_rounds, num_rounds_arg, num_rounds>>
    /\ UNCHANGED notDebate

FighterTurn ==
    /\ d_pc = "fighter"
    /\ \E reply \in DebateReplies :
        LET prev == FighterPrevious(d_round, previous_message)
            out == FighterGenerateResponse(prev, bill_json, d_round, reply)
        IN /\ calls' = Append(calls, Call("fighter", bill_json, prev, d_round, reply))
           /\ IF out.ok
              THEN /\ transcript' = AppendMessage(transcript, "fighter", out.val)
                   /\ previous_message' = out.val
                   /\ d_pc' = "hospital"
                   /\ UNCHANGED d_result
              ELSE /\ d_pc' = "raised"
                   /\ d_result' = DebateRaises(out.err)
                   /\ UNCHANGED <<transcript, previous_message>>
    /\ UNCHANGED <<d_round, max_rounds, num_rounds_arg, num_rounds, bill_json>>
    /\ UNCHANGED notDebate

HospitalTurn ==
    /\ d_pc = "hospital"
    /\ \E reply \in DebateReplies :
        LET prev == previous_message
            out == HospitalGenerateResponse(prev, bill_json, d_round, reply)
        IN /\ calls' = Append(calls, Call("hospital", bill_json, prev, d_round, reply))
           /\ IF out.ok
              THEN /\ transcript' = AppendMessage(transcript, "hospital", out.val)
                   \* the round-3 hospital turn leaves previous_message alone
                   /\ previous_message' =
                        IF d_round < HardCodedRounds THEN out.val ELSE previous_message
                   /\ IF RoundFollows(d_round, num_rounds)
                      THEN d_pc' = "fighter" /\ d_round' = d_round + 1
                      ELSE d_pc' = "return" /\ d_round' = d_round
                   /\ UNCHANGED d_result
              ELSE /\ d_pc' = "raised"
                   /\ d_result' = DebateRaises(out.err)
                   /\ UNCHANGED <<transcript, previous_message, d_round>>
    /\ UNCHANGED <<max_rounds, num_rounds_arg, num_rounds, bill_json>>
    /\ UNCHANGED notDebate


ReturnTranscript ==
    /\ d_pc = "return"
    /\ d_result' = [kind |-> "list", items |-> transcript, err |-> "none"]
    /\ d_pc' = "returned"
    /\ UNCHANGED <<d_round, max_rounds, num_rounds_arg, num_rounds, bill_json,
                   transcript, previous_message, calls>>
    /\ UNCHANGED notDebate

-----------------------------------------------------------------------------
(* generate_debate_summary *)

NoSummary == [kind |-> "none", patient_arguments |-> <<>>, hospital_arguments |-> <<>>,
              recommendation |-> <<>>]

SummaryOf(p, h, r) ==
    [kind |-> "dict", patient_arguments |-> p, hospital_arguments |-> h, recommendation |-> r]

\* json.loads(None) raises TypeError, JSONDecodeError becomes ValueError, and
\* parsed.get raises AttributeError when the JSON text is no object; the
\* outer except re-raises all of them
GenerateDebateSummary(reply) ==
    IF reply.kind = "raise" THEN [ok |-> FALSE, val |-> NoSummary, err |-> "APIError"]
    ELSE IF reply.none THEN [ok |-> FALSE, val |-> NoSummary, err |-> "TypeError"]
    ELSE IF ~JsonLoads(reply.doc).ok
    THEN [ok |-> FALSE, val |-> NoSummary, err |-> "ValueError: Invalid JSON response"]
    ELSE LET parsed == JsonLoads(reply.doc).val
         IN IF parsed.kind # "dict"
            THEN [ok |-> FALSE, val |-> NoSummary, err |-> "AttributeError"]
            ELSE [ok |-> TRUE,
                  val |-> SummaryOf(MaterialField(parsed, "patient_arguments"),
                                    MaterialField(parsed, "hospital_arguments"),
                                    MaterialField(parsed, "recommendation")),
                  err |-> "none"]

SummaryReplies ==
    {ApiRaises, NoContent, Content(InvalidDoc),
     Content(ObjectDoc(<<[k |-> "patient_arguments", val |-> OtherVal(TStr(<<"p">>))],
                         [k |-> "recommendation", val |-> OtherVal(TStr(<<"r", " ">>))]>>))}

-----------------------------------------------------------------------------
(* A full run over one document, from the two entry points: the API        *)
(* handler process_bill and the CLI's run_pipeline.  The text of the        *)
(* document is held as the length of its stripped form; the call of         *)
(* process_medical_bill is one step of the run.                             *)

\* the handler's own minimum of stripped characters
ApiMinText == 50

\* DebateManager(max_rounds=10).run_debate(num_rounds=10)
ApiRounds == 10

\* the summary the handler substitutes when generate_debate_summary raises
FailedSummary ==
    SummaryOf(<<"Summary generation failed.">>, <<"Summary generation failed.">>,
              <<"Please review the debate transcript manually.">>)

\* what OCRPipeline.extract gives the run: the path does not exist (CLI),
\* the extraction raises, or a text
OcrRaises == [kind |-> "raise", n |-> 0]
OcrMissing == [kind |-> "missing", n |-> 0]
OcrText(n) == [kind |-> "text", n |-> n]
NoOcrText == [kind |-> "none", n |-> 0]

OcrOutcomes == {OcrRaises, OcrMissing, OcrText(0), OcrText(ApiMinText - 1), OcrText(ApiMinText)}

\* `not ocr_text or len(ocr_text.strip()) < 50` / `not ocr_text.strip()`
OcrRejected(e, text) ==
    IF e = "api" THEN text.n < ApiMinText ELSE text.n = 0

\* `if line_items: analysis_items = analyze_line_items(...)`
AnalysisStage(ext, ar) ==
    IF ext.items # <<>> THEN ParseAndNormalize("analysis", ar) ELSE StageReturns(<<>>)

\* `if analysis_items: negotiation_materials = generate_negotiation_materials(...)`
NegotiationStage(ana, nr) ==
    IF ana.items # <<>> THEN NegotiationAgent(nr) ELSE MaterialsOf(PlaceholderMaterials)

\* process_medical_bill from the outcomes of its three stages: the locals,
\* the calls made and the dict returned or the exception raised
ProcessMedicalBill(ext, ana, neg, upBilled, upExpected, upSavings) ==
    LET c1 == <<"extraction">>
        c2 == IF ext.items # <<>> THEN Append(c1, "analysis") ELSE c1
        c3 == IF ana.items # <<>> THEN Append(c2, "negotiation") ELSE c2
    IN IF ext.kind # "ok"
       THEN [pc |-> "raised", line_items |-> <<>>, analysis_items |-> <<>>,
             negotiation |-> NoMaterials, calls |-> c1, result |-> PipelineRaises(ext.err)]
       ELSE IF ana.kind # "ok"
       THEN [pc |-> "raised", line_items |-> ext.items, analysis_items |-> <<>>,
             negotiation |-> NoMaterials, calls |-> c2, result |-> PipelineRaises(ana.err)]
       ELSE IF ~neg.ok
       THEN [pc |-> "raised", line_items |-> ext.items, analysis_items |-> ana.items,
             negotiation |-> NoMaterials, calls |-> c3, result |-> PipelineRaises(neg.err)]
       ELSE [pc |-> "returned", line_items |-> ext.items, analysis_items |-> ana.items,
             negotiation |-> neg.val, calls |-> c3,
             result |-> [kind |-> "dict", extraction |-> ext.items, analysis |-> ana.items,
                         negotiation |-> neg.val,
                         summary_stats |-> SummaryStats(ana.items, upBilled, upExpected, upSavings),
                         err |-> "none"]]

\* no items; one item, not flagged though billed above its expected cost; an
\* item flagged though billed below its expected cost with one like the first
RunAnalysisReplies ==
    {ApiRaises, Content(Under("line_items", <<>>)),
     Content(Under("line_items",
        <<ObjElem(With(BilledItem(<<"1">>, <<"2">>), "expected_cost",
                       TNum(<<"0", ".", "0", "0", "2">>)))>>)),
     Content(Under("line_items",
        <<ObjElem(With(With(BilledItem(<<"1">>, <<"1">>), "expected_cost", TNum(<<"1", ".", "0", "1">>)),
                       "overcharge_flag", TTrue)),
          ObjElem(With(BilledItem(<<"0", ".", "0", "0", "6">>, <<"2">>), "expected_cost",
                       TNum(<<"0", ".", "0", "0", "2">>)))>>))}

\* the outcome of a run: nothing yet, an exception (for the API an
\* HTTPException with its status), or the returned value
NoRunResult ==
    [kind |-> "none", status |-> 0, extraction |-> <<>>, analysis |-> <<>>,
     summary_stats |-> NoStats, messages |-> <<>>, debate_summary |-> NoSummary]

RunRaises(e, status) ==
    [NoRunResult EXCEPT !.kind = IF e = "api" THEN "HTTPException" ELSE "raise",
                        !.status = IF e = "api" THEN status ELSE 0]

\* map_debate_role_to_frontend
MapDebateRoleToFrontend(role) ==
    IF role = "fighter" THEN "bill" ELSE IF role = "hospital" THEN "medical" ELSE role

Messages(e, t) ==
    IF e = "api"
    THEN [i \in 1..Len(t) |-> [role |-> MapDebateRoleToFrontend(t[i].role), content |-> t[i].content]]
    ELSE t

\* rounds = max(1, max_rounds) in the CLI, 10 in the handler
RunRounds(e, requested) == IF e = "api" THEN ApiRounds ELSE Max(1, requested)

DebateRuns_Always(e, flag, analysis) == TRUE

\* the debate runs for every bill in the handler; in the CLI
\* `if run_debate and pipeline_result.get("analysis")`
DebateRuns(e, flag, analysis) == e = "api" \/ (flag /\ analysis # <<>>)

runLocals == <<entry, cli_max_rounds, cli_run_debate>>

\* an entry of the log of the run's completion calls outside the debate
Logged(stage, reply) == [stage |-> stage, raised |-> reply.kind = "raise"]

\* the text of the document
RunOcr ==
    /\ r_pc = "ocr"
    /\ \E out \in OcrOutcomes :
        /\ out.kind = "missing" => entry = "cli"
        /\ ocr_text' = out
        /\ IF out.kind = "missing" THEN r_pc' = "raised" /\ r_result' = RunRaises(entry, 0)
           ELSE IF out.kind = "raise" \/ OcrRejected(entry, out)
           THEN r_pc' = "raised" /\ r_result' = RunRaises(entry, 400)
           ELSE r_pc' = "pipeline" /\ UNCHANGED r_result
    /\ UNCHANGED <<runLocals, debate_summary, service_log>>
    /\ UNCHANGED <<debateVars, pipelineVars>>
    /\ UNCHANGED notRun

\* process_medical_bill, then the handler's rejection of an empty analysis
\* and the construction of the DebateManager
RunProcessMedicalBill ==
    /\ r_pc = "pipeline"
    /\ \E er \in ExtractionReplies, ar \in RunAnalysisReplies, nr \in NegotiationReplies,
          upBilled, upExpected, upSavings \in BOOLEAN :
        \E ext \in {ParseAndNormalize("extraction", er)} :
        \E ana \in {AnalysisStage(ext, ar)} :
        \E neg \in {NegotiationStage(ana, nr)} :
        \E out \in {ProcessMedicalBill(ext, ana, neg, upBilled, upExpected, upSavings)} :
        \E rounds \in {RunRounds(entry, cli_max_rounds)} :
           /\ p_pc' = out.pc
           /\ line_items' = out.line_items
           /\ analysis_items' = out.analysis_items
           /\ negotiation_materials' = out.negotiation
           /\ p_calls' = out.calls
           /\ p_result' = out.result
           /\ service_log' =
                [i \in 1..Len(out.calls) |->
                    Logged(out.calls[i],
                           CASE out.calls[i] = "extraction" -> er
                             [] out.calls[i] = "analysis" -> ar
                             [] OTHER -> nr)]
           /\ IF out.pc = "raised" \/ (entry = "api" /\ out.analysis_items = <<>>)
              THEN /\ r_pc' = "raised"
                   /\ r_result' = RunRaises(entry, 500)
                   /\ UNCHANGED debateVars
              ELSE IF DebateRuns(entry, cli_run_debate, out.analysis_items)
              THEN /\ r_pc' = "debate"
                   /\ d_pc' = "start"
                   /\ max_rounds' = rounds
                   /\ num_rounds_arg' = PyInt(rounds)
                   /\ bill_json' = [kind |-> "list", items |-> out.analysis_items]
                   /\ UNCHANGED <<d_round, num_rounds, transcript, previous_message, calls,
                                  d_result, r_result>>
              ELSE /\ r_pc' = "return"
                   /\ UNCHANGED <<debateVars, r_result>>
    /\ UNCHANGED <<runLocals, ocr_text, debate_summary>>
    /\ UNCHANGED notRun

\* run_debate has ended: its exception ends the run
RunAfterDebate ==
    /\ r_pc = "debate"
    /\ d_pc \in {"returned", "raised"}
    /\ IF d_pc = "raised"
       THEN r_pc' = "raised" /\ r_result' = RunRaises(entry, 500)
       ELSE r_pc' = "summary" /\ UNCHANGED r_result
    /\ UNCHANGED <<runLocals, ocr_text, debate_summary, service_log>>
    /\ UNCHANGED <<debateVars, pipelineVars>>
    /\ UNCHANGED notRun

\* generate_debate_summary inside try / except Exception: the handler
\* substitutes the fixed summary, the CLI leaves debate_summary None
RunSummary ==
    /\ r_pc = "summary"
    /\ \E reply \in SummaryReplies :
        \E out \in {GenerateDebateSummary(reply)} :
           /\ service_log' = Append(service_log, Logged("summary", reply))
           /\ debate_summary' =
                IF out.ok THEN out.val
                ELSE IF entry = "api" THEN FailedSummary ELSE NoSummary
    /\ r_pc' = "return"
    /\ UNCHANGED <<runLocals, ocr_text, r_result>>
    /\ UNCHANGED <<debateVars, pipelineVars>>
    /\ UNCHANGED notRun

\* the response of the handler, the dict of the CLI
RunReturn ==
    /\ r_pc = "return"
    /\ r_result' =
        [kind |-> IF entry = "api" THEN "ProcessBillResponse" ELSE "dict",
         status |-> 0,
         extraction |-> IF entry = "api" THEN <<>> ELSE p_result.extraction,
         analysis |-> IF entry = "api" THEN <<>> ELSE p_result.analysis,
         summary_stats |-> p_result.summary_stats,
         messages |-> Messages(entry, d_result.items),
         debate_summary |-> debate_summary]
    /\ r_pc' = "returned"
    /\ UNCHANGED <<runLocals, ocr_text, debate_summary, service_log>>
    /\ UNCHANGED <<debateVars, pipelineVars>>
    /\ UNCHANGED notRun

-----------------------------------------------------------------------------
(* The credential: config.get_openai_api_key and the `if api_key is None`  *)
(* that opens every agent, both debate agents' constructors and            *)
(* generate_debate_summary                                                  *)

PlaceholderKey ==
    <<"y", "o", "u", "r", "-", "a", "p", "i", "-", "k", "e", "y", "-", "h", "e", "r", "e">>

KeyPrefix == <<"s", "k", "-">>

\* s.startswith(prefix)
StartsWith(x, prefix) == Len(x) >= Len(prefix) /\ SubSeq(x, 1, Len(prefix)) = prefix

\* get_env(key, default, required): os.getenv, RuntimeError when required
\* and unset
GetEnv(env, default, required) ==
    LET value == IF env # PyNone THEN env ELSE default
    IN IF required /\ value = PyNone THEN Raised("RuntimeError") ELSE Returned(value)

GetOpenaiApiKey_NoFormatCheck(env) ==
    LET got == GetEnv(env, PyNone, TRUE)
    IN IF ~got.ok THEN got
       ELSE IF ~Truthy(got.val) \/ got.val.s = PlaceholderKey THEN Raised("RuntimeError")
       ELSE Returned(got.val)

GetOpenaiApiKey(env) ==
    LET got == GetEnv(env, PyNone, TRUE)
    IN IF ~got.ok THEN got
       ELSE IF ~Truthy(got.val) \/ got.val.s = PlaceholderKey THEN Raised("RuntimeError")
       ELSE IF ~StartsWith(got.val.s, KeyPrefix) THEN Raised("RuntimeError")
       ELSE Returned(got.val)

\* if api_key is None: try get_openai_api_key() except RuntimeError: raise ValueError
ResolveApiKey(arg, env) ==
    IF arg # PyNone THEN Returned(arg)
    ELSE IF GetOpenaiApiKey(env).ok THEN GetOpenaiApiKey(env)
    ELSE Raised("ValueError")

EnvKeys ==
    {PyNone, PyStr(<<>>), PyStr(<<" ">>), PyStr(PlaceholderKey), PyStr(<<"p", "k", "-", "1">>),
     PyStr(<<"s", "k">>), PyStr(<<"S", "K", "-", "1">>), PyStr(<<"s", "k", "-", "1">>)}

ApiKeyArgs == {PyNone, PyStr(<<"s", "k", "-", "2">>), PyStr(<<"k">>)}

KeyTargets == {"process_medical_bill", "DebateManager", "generate_debate_summary"}

\* a completion call made with the client of a key
KeyedCall(stage, key) == [stage |-> stage, key |-> key.s]

\* process_medical_bill(api_key=api_key): the first agent resolves the key
\* before its call, the later ones resolve the same key again
KeyProcessMedicalBill ==
    /\ k_pc = "start"
    /\ k_target = "process_medical_bill"
    /\ LET key == ResolveApiKey(api_key, env_key)
       IN IF ~key.ok
          THEN /\ k_result' = key.err
               /\ k_pc' = "raised"
               /\ UNCHANGED k_calls
          ELSE \E er \in ExtractionReplies, ar \in RunAnalysisReplies, nr \in NegotiationReplies :
                \E ext \in {ParseAndNormalize("extraction", er)} :
                \E ana \in {AnalysisStage(ext, ar)} :
                \E neg \in {NegotiationStage(ana, nr)} :
                \E out \in {ProcessMedicalBill(ext, ana, neg, TRUE, TRUE, TRUE)} :
                   /\ k_calls' = [i \in 1..Len(out.calls) |-> KeyedCall(out.calls[i], key.val)]
                   /\ k_result' = IF out.pc = "raised" THEN out.result.err ELSE "dict"
                   /\ k_pc' = out.pc
    /\ UNCHANGED <<env_key, api_key, k_target>>
    /\ UNCHANGED notKey

\* DebateManager(api_key=api_key): the two agents' constructors
KeyDebateManagerInit ==
    /\ k_pc = "start"
    /\ k_target = "DebateManager"
    /\ LET key == ResolveApiKey(api_key, env_key)
       IN IF ~key.ok
          THEN k_result' = key.err /\ k_pc' = "raised"
          ELSE k_result' = "DebateManager" /\ k_pc' = "constructed"
    /\ UNCHANGED <<env_key, api_key, k_target, k_calls>>
    /\ UNCHANGED notKey

\* a turn of the constructed manager: the call goes out with the key the
\* constructors resolved
KeyDebateTurn ==
    /\ k_pc = "constructed"
    /\ Len(k_calls) < 2 * HardCodedRounds
    /\ k_calls' = Append(k_calls, KeyedCall(IF Len(k_calls) % 2 = 0 THEN "fighter" ELSE "hospital",
                                            ResolveApiKey(api_key, env_key).val))
    /\ UNCHANGED <<env_key, api_key, k_target, k_pc, k_result>>
    /\ UNCHANGED notKey

\* generate_debate_summary(api_key=api_key)
KeyGenerateDebateSummary ==
    /\ k_pc = "start"
    /\ k_target = "generate_debate_summary"
    /\ LET key == ResolveApiKey(api_key, env_key)
       IN IF ~key.ok
          THEN /\ k_result' = key.err
               /\ k_pc' = "raised"
               /\ UNCHANGED k_calls
          ELSE \E reply \in SummaryReplies :
                \E out \in {GenerateDebateSummary(reply)} :
                   /\ k_calls' = Append(k_calls, KeyedCall("summary", key.val))
                   /\ k_result' = IF out.ok THEN "dict" ELSE out.err
                   /\ k_pc' = IF out.ok THEN "returned" ELSE "raised"
    /\ UNCHANGED <<env_key, api_key, k_target>>
    /\ UNCHANGED notKey

-----------------------------------------------------------------------------
(* Specifications: one per component, the other components idle *)

RequestedRounds == {PyNone} \cup {PyInt(i) : i \in (0 - 1)..MaxRequested}

DebateIdle ==
    /\ d_pc = "idle"
    /\ d_round = 1
    /\ max_rounds = 1
    /\ num_rounds_arg = PyNone
    /\ num_rounds = 1
    /\ bill_json = [kind |-> "list", items |-> <<>>]
    /\ transcript = <<>>
    /\ previous_message = PyNone
    /\ calls = <<>>
    /\ d_result = NoResult

OcrIdle ==
    /\ o_pc = "idle"
    /\ document = [is_path |-> FALSE, exists |-> TRUE, pdf_ok |-> TRUE,
                   tesseract_ok |-> TRUE, convert_ok |-> TRUE, pages |-> <<>>]
    /\ min_text_threshold = DefaultMinTextThreshold
    /\ return_pages = TRUE
    /\ o_pages = <<>>
    /\ o_method = "none"
    /\ text_error = NoExc
    /\ text_calls = 0
    /\ ocr_calls = 0
    /\ o_result = NoExtraction

NormIdle ==
    /\ n_pc = "idle"
    /\ n_stage = "extraction"
    /\ n_reply = ApiRaises
    /\ n_result = NoStageResult
    /\ n_again = NoStageResult

PipelineIdle ==
    /\ p_pc = "idle"
    /\ line_items = <<>>
    /\ analysis_items = <<>>
    /\ negotiation_materials = NoMaterials
    /\ p_calls = <<>>
    /\ p_result = NoPipelineResult

RunIdle ==
    /\ r_pc = "idle"
    /\ entry = "api"
    /\ cli_max_rounds = 3
    /\ cli_run_debate = TRUE
    /\ ocr_text = NoOcrText
    /\ debate_summary = NoSummary
    /\ service_log = <<>>
    /\ r_result = NoRunResult

KeyIdle ==
    /\ env_key = PyStr(<<"s", "k", "-", "1">>)
    /\ api_key = PyNone
    /\ k_target = "process_medical_bill"
    /\ k_pc = "idle"
    /\ k_calls = <<>>
    /\ k_result = "none"

InitDebate ==
    /\ OcrIdle
    /\ NormIdle
    /\ PipelineIdle
    /\ RunIdle
    /\ KeyIdle
    /\ d_pc = "start"
    /\ d_round = 1
    /\ max_rounds \in 1..MaxMaxRounds
    /\ num_rounds_arg \in RequestedRounds
    /\ num_rounds = 1
    /\ bill_json \in DebateBills
    /\ transcript = <<>>
    /\ previous_message = PyNone
    /\ calls = <<>>
    /\ d_result = NoResult

NextDebate == RunDebateStart \/ FighterTurn \/ HospitalTurn \/ ReturnTranscript

SpecDebate == InitDebate /\ [][NextDebate]_vars

InitOcr ==
    /\ DebateIdle
    /\ NormIdle
    /\ PipelineIdle
    /\ RunIdle
    /\ KeyIdle
    /\ o_pc = "start"
    /\ document \in Documents
    /\ min_text_threshold \in 0..MaxThreshold
    /\ return_pages \in BOOLEAN
    /\ o_pages = <<>>
    /\ o_method = "none"
    /\ text_error = NoExc
    /\ text_calls = 0
    /\ ocr_calls = 0
    /\ o_result = NoExtraction

NextOcr ==
    \/ ExtractTryText
    \/ ExtractFallbackInTry
    \/ ExtractFallbackInExcept
    \/ ExtractPrepareResult

SpecOcr == InitOcr /\ [][NextOcr]_vars

InitNorm ==
    /\ DebateIdle
    /\ OcrIdle
    /\ PipelineIdle
    /\ RunIdle
    /\ KeyIdle
    /\ n_pc = "start"
    /\ n_stage \in {"extraction", "analysis"}
    /\ n_reply \in NormReplies
    /\ n_result = NoStageResult
    /\ n_again = NoStageResult

NextNorm == NormalizeResponse \/ NormalizeAgain

SpecNorm == InitNorm /\ [][NextNorm]_vars

InitPipeline ==
    /\ DebateIdle
    /\ OcrIdle
    /\ NormIdle
    /\ RunIdle
    /\ KeyIdle
    /\ p_pc = "extraction"
    /\ line_items = <<>>
    /\ analysis_items = <<>>
    /\ negotiation_materials = NoMaterials
    /\ p_calls = <<>>
    /\ p_result = NoPipelineResult

NextPipeline == RunExtraction \/ RunAnalysis \/ RunNegotiation \/ CompileResult

SpecPipeline == InitPipeline /\ [][NextPipeline]_vars

\* --max-debate-rounds is any integer: 0 and below are accepted
InitRun ==
    /\ DebateIdle
    /\ OcrIdle
    /\ NormIdle
    /\ PipelineIdle
    /\ KeyIdle
    /\ r_pc = "ocr"
    /\ entry \in {"api", "cli"}
    /\ cli_max_rounds \in (0 - 1)..MaxMaxRounds
    /\ cli_run_debate \in BOOLEAN
    /\ (entry = "api") => (cli_max_rounds = 3 /\ cli_run_debate)
    /\ ocr_text = NoOcrText
    /\ debate_summary = NoSummary
    /\ service_log = <<>>
    /\ r_result = NoRunResult

NextRun ==
    \/ RunOcr
    \/ RunProcessMedicalBill
    \/ RunDebateStart
    \/ FighterTurn
    \/ HospitalTurn
    \/ ReturnTranscript
    \/ RunAfterDebate
    \/ RunSummary
    \/ RunReturn

SpecRun == InitRun /\ [][NextRun]_vars

\* the stages one by one, and the full run
InitStages == InitPipeline \/ InitRun

NextStages ==
    \/ RunExtraction
    \/ RunAnalysis
    \/ RunNegotiation
    \/ CompileResult
    \/ RunOcr
    \/ RunProcessMedicalBill
    \/ RunDebateStart
    \/ FighterTurn
    \/ HospitalTurn
    \/ ReturnTranscript
    \/ RunAfterDebate
    \/ RunSummary
    \/ RunReturn

SpecStages == InitStages /\ [][NextStages]_vars

InitKey ==
    /\ DebateIdle
    /\ OcrIdle
    /\ NormIdle
    /\ PipelineIdle
    /\ RunIdle
    /\ env_key \in EnvKeys
    /\ api_key \in ApiKeyArgs
    /\ k_target \in KeyTargets
    /\ k_pc = "start"
    /\ k_calls = <<>>
    /\ k_result = "none"

NextKey ==
    \/ KeyProcessMedicalBill
    \/ KeyDebateManagerInit
    \/ KeyDebateTurn
    \/ KeyGenerateDebateSummary

SpecKey == InitKey /\ [][NextKey]_vars

-----------------------------------------------------------------------------
(* Claims about the debate *)

Clamp(x, lo, hi) == IF x < lo THEN lo ELSE IF x > hi THEN hi ELSE x

Requested == IF num_rounds_arg = PyNone THEN max_rounds ELSE num_rounds_arg.n

\* C1: a successful run_debate returns exactly 2 * clamp(requested_rounds, 1,
\* max_rounds) messages, None meaning max_rounds.
C1_TranscriptLength ==
    d_pc = "returned" => Len(d_result.items) = 2 * Clamp(Requested, 1, max_rounds)

RoleAt(i) == IF i % 2 = 1 THEN "fighter" ELSE "hospital"

Alternates(t) == \A i \in 1..Len(t) : t[i].role = RoleAt(i)

IsPrefix(a, b) == Len(a) <= Len(b) /\ SubSeq(b, 1, Len(a)) = a

\* the i-th message is the (stripped) content of the i-th completion call
CallOrder ==
    /\ Len(transcript) <= Len(calls)
    /\ \A i \in 1..Len(transcript) :
        /\ transcript[i].role = calls[i].agent
        /\ transcript[i].content = Strip(calls[i].reply.content.s)

\* C2: in every state the transcript alternates fighter, hospital, ... from
\* fighter, follows the order of the completion calls, and every step keeps
\* the messages already appended, in place.
C2_AlternatingAppendOnly ==
    /\ [](Alternates(transcript) /\ CallOrder)
    /\ [][IsPrefix(transcript, transcript')]_vars

C2_Witness ==
    /\ d_pc = "returned"
    /\ Len(transcript) = 2 * HardCodedRounds
    /\ transcript[1].content # transcript[2].content

\* the reply of a turn that the claim calls empty content or a failure
FailedOrEmpty(reply) ==
    \/ reply.kind = "raise"
    \/ reply.content.t = "NoneType"
    \/ (reply.content.t = "str" /\ reply.content.s = <<>>)

\* the replies on which generate_response raises
FailedReply(reply) == reply.kind = "raise" \/ reply.content.t = "NoneType"

RunFailedAt(i) == i = Len(calls) /\ d_pc = "raised" /\ d_result.kind = "raise"

\* C3 as stated: a turn whose call raises or returns empty content (None or
\* the empty text) is the last turn, the run raises and returns nothing.
C3_Original ==
    \A i \in 1..Len(calls) : FailedOrEmpty(calls[i].reply) => RunFailedAt(i)

\* C3 amended: a turn whose call raises or returns None content is the last
\* turn, the run raises and returns nothing; a text reply, the empty text
\* included, is stripped and appended as that turn's message.
C3_FailFast ==
    \A i \in 1..Len(calls) :
        IF FailedReply(calls[i].reply)
        THEN RunFailedAt(i)
        ELSE /\ i <= Len(transcript)
             /\ transcript[i].content = Strip(calls[i].reply.content.s)

C3_Witness ==
    /\ d_pc = "raised"
    /\ Len(calls) = 4
    /\ Len(transcript) = 3
    /\ calls[4].reply = [kind |-> "content", content |-> PyNone]
    /\ calls[2].reply.content = PyStr(<<>>)

\* C4: only the first fighter turn is called with no previous message; every
\* later turn gets the content of the message appended just before it and the
\* number of its round; the hospital is never called with None.
C4_ContextThreading ==
    \A i \in 1..Len(calls) :
        /\ calls[i].agent = RoleAt(i)
        /\ calls[i].round_number = (i + 1) \div 2
        /\ (i = 1) => calls[i].previous_message = PyNone
        /\ (i > 1) => calls[i].previous_message = PyStr(transcript[i - 1].content)
        /\ (calls[i].agent = "hospital") => calls[i].previous_message # PyNone
        /\ (calls[i].template = "opening") <=> (i = 1)

C4_Witness ==
    /\ Len(calls) = 2 * HardCodedRounds
    /\ calls[3].previous_message = PyStr(<<"b">>)
    /\ calls[4].previous_message = PyStr(<<"a">>)
    /\ calls[6].previous_message = PyStr(<<>>)

\* C28: run_debate called with an empty bill_json, or with one that is not
\* a list, raises ValueError before any Completion Service call is made and
\* before any transcript message exists.
C28_InvalidBill ==
    (bill_json.items = <<>> \/ bill_json.kind # "list") =>
        /\ calls = <<>>
        /\ transcript = <<>>
        /\ d_pc \in {"start", "raised"}
        /\ (d_pc = "raised") => d_result = DebateRaises("ValueError")

\* a dict that holds an item was passed, and run_debate has raised
C28_Witness ==
    /\ d_pc = "raised"
    /\ bill_json.kind = "dict"
    /\ bill_json.items # <<>>
    /\ d_result.err = "ValueError"
    /\ calls = <<>>

-----------------------------------------------------------------------------
(* Claims about the extraction selector *)

DirectOut == TextPDFExtract(document)
FallbackOut == ImageOCRExtract(document)
DirectLength == TotalLength(DirectOut.pages)
ExtractEnded == o_pc \in {"returned", "raised"}

FallbackCalledFor == ~DirectOut.ok \/ DirectLength < min_text_threshold

\* C5: the fallback strategy is invoked if and only if the direct strategy
\* raised or its combined trimmed text is shorter than min_text_threshold; a
\* direct result of exactly the threshold's length is returned with method
\* text and no fallback call.
C5_FallbackIff ==
    /\ (ocr_calls > 0) => FallbackCalledFor
    /\ (ExtractEnded /\ FallbackCalledFor) => ocr_calls > 0
    /\ (o_pc \in {"prepare", "returned"} /\ DirectOut.ok
            /\ DirectLength >= min_text_threshold)
        => (ocr_calls = 0 /\ o_method = "text" /\ o_pages = DirectOut.pages)

C5_Witness ==
    /\ o_pc = "returned"
    /\ DirectOut.ok
    /\ min_text_threshold > 0
    /\ DirectLength = min_text_threshold
    /\ o_method = "text"
    /\ ocr_calls = 0

Contains(msg, part) ==
    \E i \in 1..Len(msg) : SubSeq(msg, i, i + Len(part) - 1) = part

\* C6: when the direct strategy raises and the fallback raises too, extract
\* raises one ValueError whose message holds both strategies' error texts,
\* and returns no pages.
C6_CombinedError ==
    (ExtractEnded /\ ~DirectOut.ok /\ ~FallbackOut.ok) =>
        /\ o_pc = "raised"
        /\ o_result.kind = "raise"
        /\ o_result.exc.type = "ValueError"
        /\ o_result.pages = <<>>
        /\ Contains(o_result.exc.msg, DirectOut.exc.msg)
        /\ Contains(o_result.exc.msg, FallbackOut.exc.msg)

C6_Witness ==
    /\ o_pc = "raised"
    /\ DirectOut.exc.type = "ValueError"
    /\ FallbackOut.exc.type = "ValueError"
    /\ ocr_calls = 1

MissingPath == document.is_path /\ ~document.exists

\* C21 as stated: OCRPipeline.extract called with a file path that does not
\* exist raises FileNotFoundError, not some other error type.
C21_Original ==
    (ExtractEnded /\ MissingPath) =>
        /\ o_pc = "raised"
        /\ o_result.exc.type = "FileNotFoundError"

\* the pages of the strategy that a method names
StrategyPages(method) ==
    IF method = "text" THEN DirectOut.pages ELSE FallbackOut.pages

\* C23: whenever extract returns, the returned pages are exactly the pages
\* produced by the strategy named by method (text for the direct strategy,
\* ocr for the fallback); when the fallback is used its pages are returned
\* with method ocr however little text they hold, and the direct pages are
\* discarded.
C23_PagesOfMethod ==
    /\ (o_pc = "returned") =>
        /\ o_method \in {"text", "ocr"}
        /\ (o_method = "text") => (DirectOut.ok /\ ocr_calls = 0)
        /\ (o_method = "ocr") => FallbackOut.ok
        /\ o_result.text = JoinPages(StrategyPages(o_method), <<"\n", "\n">>)
        /\ return_pages =>
            /\ o_result.method = o_method
            /\ o_result.pages = StrategyPages(o_result.method)
    /\ (ExtractEnded /\ ocr_calls > 0 /\ FallbackOut.ok) =>
        /\ o_pc = "returned"
        /\ o_method = "ocr"
        /\ o_pages = FallbackOut.pages

\* the direct strategy gave some text below the threshold, the fallback gave
\* pages without any text, and those are the pages returned
C23_Witness ==
    /\ o_pc = "returned"
    /\ return_pages
    /\ DirectOut.ok
    /\ DirectLength > 0
    /\ Len(FallbackOut.pages) > 0
    /\ TotalLength(FallbackOut.pages) = 0
    /\ o_result.method = "ocr"
    /\ o_result.pages = FallbackOut.pages
    /\ o_result.pages # DirectOut.pages

\* what a page contributes under the strategy of a method: "" when the page
\* raises or has no text, else its text (stripped by the OCR strategy)
PageText(method, page) ==
    LET o == IF method = "text" THEN page.text ELSE page.ocr
    IN IF o.kind = "raise" \/ o.v = PyNone \/ o.v.s = <<>> THEN <<>>
       ELSE IF method = "text" THEN o.v.s ELSE Strip(o.v.s)

\* C25: inside either extraction strategy a failure while extracting one
\* page does not abort the document: the strategy raises only for the
\* document as a whole (missing path, unreadable PDF, no Tesseract, no
\* rasterizer), the failed page contributes an empty string, the other pages
\* are still processed, and the list has one entry per page in page order.
C25_PageFailure ==
    /\ (o_pc = "except" /\ ocr_calls = 0) => (MissingPath \/ ~document.pdf_ok)
    /\ (ocr_calls > 0 /\ o_pc \in {"except", "raised"}) =>
        (MissingPath \/ ~document.tesseract_ok \/ ~document.convert_ok)
    /\ (o_pc \in {"prepare", "returned"}) =>
        /\ Len(o_pages) = Len(document.pages)
        /\ \A i \in 1..Len(o_pages) : o_pages[i] = PageText(o_method, document.pages[i])

\* the first page fails under the direct strategy, the second gives its text
C25_Witness ==
    /\ o_pc = "returned"
    /\ o_method = "text"
    /\ Len(document.pages) = 2
    /\ document.pages[1].text.kind = "raise"
    /\ document.pages[2].text.kind = "value"
    /\ o_pages[1] = <<>>
    /\ o_pages[2] # <<>>
    /\ return_pages
    /\ o_result.pages = o_pages

\* C29 as stated: in a single call of OCRPipeline.extract the fallback (OCR)
\* strategy is invoked at most once, in every execution path.
C29_Original == ocr_calls <= 1

\* C30 as stated: extract raises the combined "both text extraction and OCR
\* failed" error only if the direct strategy itself raised, and the text
\* extraction error quoted in its message is an error raised by the direct
\* strategy.
C30_Original ==
    (o_pc = "raised") =>
        /\ ~DirectOut.ok
        /\ text_error = DirectOut.exc
        /\ o_result.exc.msg = BothFailedMessage(DirectOut.exc, FallbackOut.exc)

-----------------------------------------------------------------------------
(* Claims about the normalizers *)

Normalized == n_pc \in {"done", "again"}

InputIsJson == n_reply.kind = "content" /\ ~n_reply.none /\ n_reply.doc.kind # "invalid"

InputPayload ==
    IF n_stage = "analysis" THEN SelectAnalysis(JsonLoads(n_reply.doc).val)
    ELSE SelectExtraction(JsonLoads(n_reply.doc).val)

HasListPayload == InputIsJson /\ InputPayload.kind = "list"

\* the keyed records of the payload list, in their order
InputRecords == DictItems(InputPayload.items)

\* the number a field holds, or the default when it is absent or no number
NumberOr(item, key, default) ==
    IF key \in DOMAIN item.fields /\ FloatOf(item.fields[key]).ok
    THEN FloatOf(item.fields[key]).val
    ELSE default

\* C7: a numeric field that is absent or cannot be cast takes its default
\* (quantity 1.0, price 0.0, expected_cost the price) and the stage succeeds
\* on every list payload.
C7_Original ==
    (Normalized /\ HasListPayload) =>
        /\ n_result.kind = "ok"
        /\ Len(n_result.items) = Len(InputRecords)
        /\ \A i \in 1..Len(InputRecords) :
            LET out == n_result.items[i]
                item == InputRecords[i]
            IN /\ out.quantity = NumberOr(item, "quantity", DefaultQuantity)
               /\ out.price = NumberOr(item, "price", DefaultPrice)
               /\ (n_stage = "analysis") =>
                    out.expected_cost = NumberOr(item, "expected_cost", out.price)

Low == <<"l", "o", "w">>

AnalysisReturned == Normalized /\ n_stage = "analysis" /\ n_result.kind = "ok"

\* C8 as stated: every returned flag_level is canonical, and an input that is
\* missing or is not exactly one of the three canonical values becomes low.
C8_Original ==
    AnalysisReturned =>
        \A i \in 1..Len(n_result.items) :
            LET level == n_result.items[i].flag_level.s
                item == InputRecords[i]
                exact == /\ "flag_level" \in DOMAIN item.fields
                         /\ item.fields["flag_level"].t = "str"
                         /\ item.fields["flag_level"].s \in CanonicalFlagLevels
            IN level \in CanonicalFlagLevels /\ (~exact => level = Low)

\* C8 amended: every returned flag_level is canonical; an input that is
\* missing, or whose text in lower case is none of the three canonical
\* values, becomes low; a canonical value in any letter case is returned in
\* lower case.
C8_FlagLevel ==
    AnalysisReturned =>
        \A i \in 1..Len(n_result.items) :
            LET level == n_result.items[i].flag_level.s
                item == InputRecords[i]
                given == "flag_level" \in DOMAIN item.fields
                folded == Lower(StrOf(item.fields["flag_level"]))
            IN /\ level \in CanonicalFlagLevels
               /\ (~given \/ folded \notin CanonicalFlagLevels) => level = Low
               /\ (given /\ folded \in CanonicalFlagLevels) => level = folded

C8_Witness ==
    /\ AnalysisReturned
    /\ Len(n_result.items) = 1
    /\ "flag_level" \in DOMAIN InputRecords[1].fields
    /\ InputRecords[1].fields["flag_level"] = PyStr(<<"H", "I", "G", "H">>)
    /\ n_result.items[1].flag_level = PyStr(<<"h", "i", "g", "h">>)

\* C9: a list a normalizer returned, encoded as JSON and normalized again by
\* the same normalizer, comes back identical.
C9_Idempotent == (n_pc = "again") => n_again = n_result

C9_Witness ==
    /\ n_pc = "again"
    /\ n_stage = "analysis"
    /\ n_reply.doc.kind = "object"
    /\ Len(n_result.items) = 1
    /\ n_result.items[1].price = PyFloat(2500)
    /\ n_result.items[1].expected_cost = PyFloat(0 - 3000)
    /\ n_reply.doc # JsonDumps(n_result.items)

\* the keys of the response object and the JSON value under a key
DocKeys == {n_reply.doc.pairs[i].k : i \in 1..Len(n_reply.doc.pairs)}
DocUnder(key) == n_reply.doc.pairs[CHOOSE i \in 1..Len(n_reply.doc.pairs) :
                                        n_reply.doc.pairs[i].k = key].val
DocValue(i) == n_reply.doc.pairs[i].val
ArrayValues == {i \in 1..Len(n_reply.doc.pairs) : DocValue(i).kind = "array"}

\* the JSON value C13's precedence picks from the response object
PrecedenceChoice ==
    IF "line_items" \in DocKeys THEN DocUnder("line_items")
    ELSE IF "items" \in DocKeys THEN DocUnder("items")
    ELSE IF "analysis" \in DocKeys THEN DocUnder("analysis")
    ELSE IF Len(n_reply.doc.pairs) = 1 THEN DocValue(1)
    ELSE IF ArrayValues # {} THEN DocValue(CHOOSE i \in ArrayValues : \A j \in ArrayValues : i <= j)
    ELSE ArrVal(<<>>)

\* what the stage gives when its payload is the JSON value x
StageOn(stage, x) ==
    IF x.kind # "array" THEN StageRaises("ValueError: Response is not a list")
    ELSE NormalizeList(stage, LoadVal(x).items)

AnalysisOfObject ==
    Normalized /\ n_stage = "analysis" /\ InputIsJson /\ n_reply.doc.kind = "object"

\* C13: when the parsed analysis response is a keyed mapping, the payload is
\* chosen by the precedence line_items, items, analysis, the sole key's value,
\* the first value in mapping order that is a sequence, the empty list; a
\* higher-precedence key wins when a lower-precedence candidate is present.
C13_Precedence == AnalysisOfObject => n_result = StageOn("analysis", PrecedenceChoice)

\* items holds a string and comes before analysis, which holds the list: the
\* string is chosen
C13_Witness ==
    /\ AnalysisOfObject
    /\ Len(n_reply.doc.pairs) = 3
    /\ n_reply.doc.pairs[1].k = "data" /\ DocValue(1).kind = "array"
    /\ n_reply.doc.pairs[2].k = "analysis" /\ DocValue(2).kind = "array"
    /\ n_reply.doc.pairs[3].k = "items" /\ DocValue(3).kind = "scalar"
    /\ n_result.kind = "raise"

\* the same precedence without the analysis key, as the extraction stage has it
ExtractionChoice ==
    IF "line_items" \in DocKeys THEN DocUnder("line_items")
    ELSE IF "items" \in DocKeys THEN DocUnder("items")
    ELSE IF Len(n_reply.doc.pairs) = 1 THEN DocValue(1)
    ELSE IF ArrayValues # {} THEN DocValue(CHOOSE i \in ArrayValues : \A j \in ArrayValues : i <= j)
    ELSE ArrVal(<<>>)

GotText == n_reply.kind = "content" /\ ~n_reply.none

\* the response text is JSON and its unwrapped payload is no sequence
PayloadNotSequence ==
    /\ InputIsJson
    /\ \/ n_reply.doc.kind = "scalar"
       \/ /\ n_reply.doc.kind = "object"
          /\ (IF n_stage = "analysis" THEN PrecedenceChoice ELSE ExtractionChoice).kind # "array"

ParseErrors == {"ValueError: Invalid JSON response", "ValueError: Response is not a list"}

\* C14: a response that is not valid JSON, or whose unwrapped payload is not
\* a sequence, makes the stage raise a parse error (a ValueError) to its
\* caller; the stage returns no list, empty or partial, in that case.
C14_ParseError ==
    (Normalized /\ GotText /\ (n_reply.doc.kind = "invalid" \/ PayloadNotSequence)) =>
        /\ n_result.kind = "raise"
        /\ n_result.items = <<>>
        /\ n_result.err \in ParseErrors
        /\ (n_reply.doc.kind = "invalid") <=> (n_result.err = "ValueError: Invalid JSON response")

\* a sole key that holds a string
C14_Witness ==
    /\ Normalized
    /\ n_stage = "extraction"
    /\ n_reply.doc.kind = "object"
    /\ Len(n_reply.doc.pairs) = 1
    /\ n_reply.doc.pairs[1].k = "data"
    /\ DocValue(1).kind = "scalar"
    /\ PayloadNotSequence
    /\ n_result = StageRaises("ValueError: Response is not a list")

\* the response {"analysis":[{"code":"X"}]} of an analysis call
C15_Example ==
    /\ Normalized
    /\ n_stage = "analysis"
    /\ n_reply = Content(Under("analysis", <<ObjElem(With(NoFields, "code", TStr(<<"X">>)))>>))

\* C15: an analysis record that omits expected_cost gets the record's billed
\* price as expected_cost (0.0 when the price is omitted too); the response
\* {"analysis":[{"code":"X"}]} gives exactly one record with price 0.0,
\* quantity 1.0, expected_cost 0.0, flag_level low and overcharge_flag false.
C15_ExpectedCostDefault ==
    /\ AnalysisReturned =>
        \A i \in 1..Len(n_result.items) :
            LET out == n_result.items[i]
                item == InputRecords[i]
            IN ("expected_cost" \notin DOMAIN item.fields) =>
                /\ out.expected_cost = out.price
                /\ ("price" \notin DOMAIN item.fields) => out.expected_cost = PyFloat(0)
    /\ C15_Example =>
        n_result = StageReturns(<<[code |-> PyStr(<<"X">>), description |-> PyStr(<<>>),
                                   quantity |-> PyFloat(1000), price |-> PyFloat(0),
                                   notes |-> PyNone, expected_cost |-> PyFloat(0),
                                   overcharge_flag |-> PyBool(FALSE),
                                   flag_level |-> PyStr(Low), issue |-> PyNone]>>)

\* a record that gives a price of 1.5 and no expected_cost
C15_Witness ==
    /\ AnalysisReturned
    /\ Len(n_result.items) = 1
    /\ DOMAIN InputRecords[1].fields = {"price"}
    /\ n_result.items[1].price = PyFloat(1500)
    /\ n_result.items[1].expected_cost = PyFloat(1500)

\* C16 as stated: every record returned by extraction_agent or analysis_agent
\* has quantity >= 0 and price >= 0, and every analysis record has
\* expected_cost >= 0, whatever numbers the response contains.
C16_Original ==
    (Normalized /\ n_result.kind = "ok") =>
        \A i \in 1..Len(n_result.items) :
            /\ n_result.items[i].quantity.n >= 0
            /\ n_result.items[i].price.n >= 0
            /\ (n_stage = "analysis") => n_result.items[i].expected_cost.n >= 0

\* the positions of the payload list that hold a keyed record
KeyedPositions ==
    {i \in 1..Len(InputPayload.items) : InputPayload.items[i].kind = "dict"}

\* the position of the k-th keyed record of the payload list
NthKeyed(k) ==
    CHOOSE i \in KeyedPositions : Cardinality({j \in KeyedPositions : j <= i}) = k

\* C24: elements of the payload list that are not keyed records are dropped
\* without error (the stage returns whenever each keyed record normalizes),
\* and the returned list holds exactly one record per keyed-record element,
\* in the same relative order as in the payload list.
C24_DropsOthers ==
    (Normalized /\ HasListPayload) =>
        /\ (\A i \in KeyedPositions : NormalizeItem(n_stage, InputPayload.items[i]).ok)
            => n_result.kind = "ok"
        /\ (n_result.kind = "ok") =>
            /\ Len(n_result.items) = Cardinality(KeyedPositions)
            /\ \A k \in 1..Len(n_result.items) :
                n_result.items[k] = NormalizeItem(n_stage, InputPayload.items[NthKeyed(k)]).rec

\* a record, something that is no record, and a different record
C24_Witness ==
    /\ Normalized
    /\ HasListPayload
    /\ Len(InputPayload.items) = 3
    /\ KeyedPositions = {1, 3}
    /\ n_result.kind = "ok"
    /\ Len(n_result.items) = 2
    /\ n_result.items[1] # n_result.items[2]
    /\ n_result.items[2] = NormalizeItem(n_stage, InputPayload.items[3]).rec

-----------------------------------------------------------------------------
(* Claims about process_medical_bill *)

Stats == p_result.summary_stats

\* the totals before rounding, in millionths
RawBilled == TotalBilled(analysis_items)
RawExpected == TotalExpected(analysis_items)

\* C10 as stated: the reported potential_savings is exactly the reported
\* total_billed minus the reported total_expected, and is negative whenever
\* total_expected exceeds total_billed.
C10_Original ==
    (p_pc = "returned") =>
        /\ Stats.potential_savings = Stats.total_billed - Stats.total_expected
        /\ (Stats.total_expected > Stats.total_billed) => Stats.potential_savings < 0

\* C10 amended: potential_savings is the unrounded total_billed minus the
\* unrounded total_expected, rounded to the cent on its own; it is within one
\* cent of the difference of the two reported totals and equal to it when
\* both unrounded totals are whole cents; it is never clamped: it is negative
\* whenever total_expected exceeds total_billed by a cent or more; the empty
\* collection gives 0.
C10_Savings ==
    (p_pc = "returned") =>
        /\ Abs(10000 * Stats.potential_savings - (RawBilled - RawExpected)) <= 5000
        /\ Abs(Stats.potential_savings - (Stats.total_billed - Stats.total_expected)) <= 1
        /\ (RawBilled % 10000 = 0 /\ RawExpected % 10000 = 0)
            => Stats.potential_savings = Stats.total_billed - Stats.total_expected
        /\ (RawExpected - RawBilled >= 10000) => Stats.potential_savings < 0
        /\ (analysis_items = <<>>) => Stats.potential_savings = 0

C10_Witness ==
    /\ p_pc = "returned"
    /\ Len(analysis_items) = 2
    /\ Stats.potential_savings < 0
    /\ Stats.potential_savings # Stats.total_billed - Stats.total_expected

Called(stage) == \E i \in 1..Len(p_calls) : p_calls[i] = stage

\* C11: when the analysis collection is empty, process_medical_bill makes no
\* negotiation call, returns the fixed placeholder triple and all-zero
\* summary_stats; when the extraction is empty it makes no analysis call
\* either.
C11_EmptyAnalysis ==
    (p_pc = "returned" /\ p_result.analysis = <<>>) =>
        /\ ~Called("negotiation")
        /\ p_result.negotiation = PlaceholderMaterials
        /\ p_result.negotiation.email # <<>>
        /\ Stats = NoStats
        /\ (p_result.extraction = <<>>) => ~Called("analysis")

C11_Witness ==
    /\ p_pc = "returned"
    /\ p_result.extraction # <<>>
    /\ p_result.analysis = <<>>
    /\ p_calls = <<"extraction", "analysis">>
    /\ p_result.negotiation = PlaceholderMaterials

\* the number of an amount, in thousandths
Amounts(items, key) == [i \in 1..Len(items) |-> items[i][key].n]

\* the analysis items {price 100, quantity 1, expected_cost 80},
\* {price 50, quantity 2, expected_cost 50}, {price 10, quantity 1, expected_cost 10}
IsThreeItems ==
    /\ Amounts(analysis_items, "price") = <<100000, 50000, 10000>>
    /\ Amounts(analysis_items, "quantity") = <<1000, 2000, 1000>>
    /\ Amounts(analysis_items, "expected_cost") = <<80000, 50000, 10000>>

\* C17 as stated: for these three items the aggregator reports
\* total_billed = 200, total_expected = 180 and potential_savings = 20 (the
\* statistics are held in cents).
C17_Original ==
    (p_pc = "returned" /\ IsThreeItems) =>
        /\ Stats.total_billed = 20000
        /\ Stats.total_expected = 18000
        /\ Stats.potential_savings = 2000

\* C17 amended: for these three items the aggregator reports total_items = 3,
\* total_billed = 210 (100 x 1 + 50 x 2 + 10 x 1), total_expected = 190
\* (80 x 1 + 50 x 2 + 10 x 1) and potential_savings = 20.
C17_Example ==
    (p_pc = "returned" /\ IsThreeItems) =>
        /\ Stats.total_items = 3
        /\ Stats.total_billed = 21000
        /\ Stats.total_expected = 19000
        /\ Stats.potential_savings = 2000

C17_Witness ==
    /\ p_pc = "returned"
    /\ IsThreeItems
    /\ p_result.summary_stats.total_billed = 21000
    /\ p_result.summary_stats.potential_savings = 2000

StageOrder == <<"extraction", "analysis", "negotiation">>

\* what one step of process_medical_bill may do
StagesInOrder ==
    /\ p_pc \notin {"raised", "returned"}
    /\ \/ p_calls' = p_calls
       \/ /\ Len(p_calls) < Len(StageOrder)
          /\ p_calls' = Append(p_calls, StageOrder[Len(p_calls) + 1])
    /\ (Len(p_calls') > Len(p_calls) /\ Len(p_calls') = 2) => line_items # <<>>
    /\ (Len(p_calls') > Len(p_calls) /\ Len(p_calls') = 3) => analysis_items # <<>>
    /\ (p_pc' = "raised") => (p_calls' # p_calls /\ p_result'.kind = "raise")
    /\ (p_pc' # "returned") => p_result'.kind # "dict"

\* C27: process_medical_bill calls the stages strictly in the order
\* extraction, analysis, negotiation, each at most once and each only after
\* the previous one has returned its collection; when a stage raises, no
\* later stage is called and no result is returned.
C27_StageOrder == [][StagesInOrder]_vars

\* the analysis raised after the extraction had returned
C27_Witness ==
    /\ p_pc = "raised"
    /\ p_calls = <<"extraction", "analysis">>
    /\ line_items # <<>>
    /\ p_result.kind = "raise"

-----------------------------------------------------------------------------
(* Claims about a full run *)

RunEnded == r_pc \in {"returned", "raised"}

\* the sum over the collection of field x quantity, in millionths
RECURSIVE Weighted(_, _)
Weighted(items, field) ==
    IF items = <<>> THEN 0
    ELSE Head(items)[field].n * Head(items).quantity.n + Weighted(Tail(items), field)

Overcharged(items) == {i \in 1..Len(items) : items[i].overcharge_flag = PyBool(TRUE)}

NearestCent(cents, millionths) == Abs(10000 * cents - millionths) <= 5000

\* C18: the aggregate of process_medical_bill is total_items = the number of
\* items, total_billed = the sum of price x quantity and total_expected = the
\* sum of expected_cost x quantity (each reported to the cent), flagged_items
\* = the number of items whose overcharge_flag is true, whatever their price
\* minus expected_cost; every debate turn computes the same sums and counts
\* from the same collection.
C18_Aggregate ==
    (p_pc = "returned") =>
        /\ Stats.total_items = Len(analysis_items)
        /\ NearestCent(Stats.total_billed, Weighted(analysis_items, "price"))
        /\ NearestCent(Stats.total_expected, Weighted(analysis_items, "expected_cost"))
        /\ Stats.flagged_items = Cardinality(Overcharged(analysis_items))
        /\ \A i \in 1..Len(calls) :
            /\ calls[i].figures.total_billed = Weighted(analysis_items, "price")
            /\ calls[i].figures.total_expected = Weighted(analysis_items, "expected_cost")
            /\ calls[i].figures.flagged_items = Cardinality(Overcharged(analysis_items))
            /\ calls[i].figures.items = Len(analysis_items)

\* the flagged item is billed below its expected cost, the other one above
C18_Witness ==
    /\ r_pc = "returned"
    /\ Len(analysis_items) = 2
    /\ Overcharged(analysis_items) = {1}
    /\ analysis_items[1].price.n < analysis_items[1].expected_cost.n
    /\ analysis_items[2].price.n > analysis_items[2].expected_cost.n
    /\ Stats.flagged_items = 1
    /\ Len(calls) = 6
    /\ calls[6].figures.flagged_items = 1

\* process_medical_bill returned with an empty analysis collection (which
\* is the case of every document that yields zero line items)
NoLineItems == p_pc = "returned" /\ p_result.analysis = <<>>

SummaryCalled == \E i \in 1..Len(service_log) : service_log[i].stage = "summary"

\* C12 as stated: a run over a document that yields zero line items
\* completes successfully at both entry points and returns all-zero summary
\* statistics.
C12_Original ==
    (RunEnded /\ NoLineItems) =>
        /\ r_pc = "returned"
        /\ r_result.summary_stats = NoStats

\* C12 amended: over a document that yields zero line items the CLI's
\* run_pipeline completes and returns the empty collections, all-zero summary
\* statistics, an empty debate transcript and no debate summary, without any
\* debate or summary call; the API handler process_bill does not return: it
\* raises an HTTPException with status 500, also without any debate or
\* summary call.
C12_EmptyRun ==
    (RunEnded /\ NoLineItems) =>
        /\ calls = <<>>
        /\ ~SummaryCalled
        /\ (entry = "cli") =>
            /\ r_pc = "returned"
            /\ r_result.kind = "dict"
            /\ r_result.extraction = p_result.extraction
            /\ r_result.analysis = <<>>
            /\ r_result.summary_stats = NoStats
            /\ r_result.messages = <<>>
            /\ r_result.debate_summary = NoSummary
        /\ (entry = "api") =>
            /\ r_pc = "raised"
            /\ r_result.kind = "HTTPException"
            /\ r_result.status = 500

C12_Witness ==
    /\ entry = "cli"
    /\ cli_run_debate
    /\ r_pc = "returned"
    /\ NoLineItems
    /\ p_result.extraction # <<>>
    /\ r_result.summary_stats = NoStats

\* the Completion Service raised in a call of the pipeline, of the debate,
\* of the summary
PipelineErrored ==
    \E i \in 1..Len(service_log) : service_log[i].stage # "summary" /\ service_log[i].raised
DebateErrored == \E i \in 1..Len(calls) : calls[i].reply.kind = "raise"
SummaryErrored ==
    \E i \in 1..Len(service_log) : service_log[i].stage = "summary" /\ service_log[i].raised

NothingReturned ==
    /\ r_pc = "raised"
    /\ r_result.kind \in {"HTTPException", "raise"}
    /\ r_result.extraction = <<>> /\ r_result.analysis = <<>> /\ r_result.messages = <<>>
    /\ r_result.summary_stats = NoStats /\ r_result.debate_summary = NoSummary

\* C19 as stated: a Completion Service error in any call of a run, the debate
\* summary included, ends the run with that error and nothing is returned.
C19_Original ==
    (RunEnded /\ (PipelineErrored \/ DebateErrored \/ SummaryErrored)) => NothingReturned

\* C19 amended: a Completion Service error in the extraction, analysis or
\* negotiation call or in a debate turn ends the run with an error (in the
\* API handler an HTTPException of status 500), the failed call is the last
\* one of the run and nothing is returned.  An error in the debate summary
\* call does not: both entry points catch it and return the complete result,
\* the handler with its fixed 'Summary generation failed.' summary, the CLI
\* with a null debate_summary.
C19_Propagation ==
    RunEnded =>
        /\ PipelineErrored =>
            /\ NothingReturned
            /\ service_log[Len(service_log)].raised
            /\ calls = <<>>
        /\ DebateErrored =>
            /\ NothingReturned
            /\ calls[Len(calls)].reply.kind = "raise"
            /\ ~SummaryCalled
        /\ (entry = "api" /\ (PipelineErrored \/ DebateErrored)) => r_result.status = 500
        /\ SummaryErrored =>
            /\ r_pc = "returned"
            /\ r_result.kind \in {"ProcessBillResponse", "dict"}
            /\ Len(r_result.messages) = Len(transcript)
            /\ r_result.messages # <<>>
            /\ r_result.summary_stats = p_result.summary_stats
            /\ r_result.debate_summary =
                 IF entry = "api"
                 THEN SummaryOf(<<"Summary generation failed.">>, <<"Summary generation failed.">>,
                                <<"Please review the debate transcript manually.">>)
                 ELSE NoSummary

\* the negotiation call fails in a run of the handler
C19_Witness ==
    /\ entry = "api"
    /\ r_pc = "raised"
    /\ Len(service_log) = 3
    /\ service_log[3] = [stage |-> "negotiation", raised |-> TRUE]
    /\ r_result.kind = "HTTPException"
    /\ r_result.status = 500

\* C22 as stated: in the CLI runner, run_pipeline called with max_rounds = 0
\* makes no debate Completion Service call and returns an empty
\* debate_transcript and a null debate_summary.
C22_Original ==
    (entry = "cli" /\ cli_max_rounds = 0) =>
        /\ calls = <<>>
        /\ (r_pc = "returned") =>
            /\ r_result.messages = <<>>
            /\ r_result.debate_summary = NoSummary

\* what one step may do to the collections of the earlier stages
StagesKeepCollections ==
    /\ (p_pc \notin {"idle", "extraction"}) => line_items' = line_items
    /\ (p_pc \notin {"idle", "extraction", "analysis"}) => analysis_items' = analysis_items
    /\ (p_pc = "returned") => p_result' = p_result
    /\ (d_pc # "idle") => bill_json' = bill_json
    /\ (p_pc' = "returned") =>
        /\ p_result'.extraction = line_items'
        /\ p_result'.analysis = analysis_items'
    /\ \A i \in 1..Len(calls') :
        calls'[i].bill_json = [kind |-> "list", items |-> analysis_items']

\* C26: no stage mutates a collection produced by an earlier stage: once
\* extraction has returned, analysis_agent and the rest of
\* process_medical_bill leave the extraction list as it is, and once the
\* analysis has returned, negotiation_agent, every debate turn and
\* generate_debate_summary leave the analysis collection as it is, so every
\* turn of one debate run receives the identical collection.
C26_NoMutation == [][StagesKeepCollections]_vars

\* a run of three rounds and a summary over two analysed items
C26_Witness ==
    /\ r_pc = "returned"
    /\ SummaryCalled
    /\ line_items # <<>>
    /\ Len(analysis_items) = 2
    /\ Len(calls) = 6
    /\ \A i \in 1..6 : calls[i].bill_json.items = analysis_items
    /\ p_result.analysis = analysis_items
    /\ p_result.extraction = line_items

-----------------------------------------------------------------------------
(* Claims about the credential *)

\* the environment holds a credential the configuration accepts: set, not
\* empty, not the placeholder of the template, starting with sk-
ValidCredential ==
    /\ env_key # PyNone
    /\ env_key.s # <<>>
    /\ env_key.s # PlaceholderKey
    /\ Len(env_key.s) >= 3
    /\ <<env_key.s[1], env_key.s[2], env_key.s[3]>> = <<"s", "k", "-">>

\* C20: when no API key is passed and the credential is missing or invalid
\* in the environment, process_medical_bill, the construction of the
\* DebateManager and generate_debate_summary each fail with an error before
\* any Completion Service call; no call is ever issued without a valid
\* credential.
C20_NoCallWithoutCredential ==
    /\ (api_key = PyNone /\ ~ValidCredential) =>
        /\ k_calls = <<>>
        /\ k_pc \in {"start", "raised"}
        /\ (k_pc = "raised") => k_result = "ValueError"
    /\ \A i \in 1..Len(k_calls) :
        k_calls[i].key = IF api_key = PyNone THEN env_key.s ELSE api_key.s

\* the environment holds a key of the wrong format and the function has failed
C20_Witness ==
    /\ api_key = PyNone
    /\ env_key = PyStr(<<"p", "k", "-", "1">>)
    /\ k_target = "process_medical_bill"
    /\ k_pc = "raised"
    /\ k_result = "ValueError"
    /\ k_calls = <<>>

====
